---------------------------- MODULE Spec2Model ----------------------------
(***************************************************************************)
(* TAMDL sequence control: power outputs (Control.c), RFID reader power    *)
(* management and frame decoder (RFID.c), the menu key handlers that       *)
(* switch outputs and calibrate the measurement (DM_PowerOutput.c), the    *)
(* calibration data and its storage (Control.c) and the service loop       *)
(* (main.c).                                                               *)
(*                                                                         *)
(* Every C function is an operator from a state record to a state record;  *)
(* an action packs the variables into a record (Cur), applies the          *)
(* handler's operator and unpacks the result (Set).  Interrupt handlers    *)
(* are atomic actions.  The service loop is a sequence of steps (pc) that  *)
(* interrupt handlers may preempt; a PowerOutput() call made by the loop   *)
(* is split between its entry checks and its body.                         *)
(*                                                                         *)
(* Build assumptions: LOGGING is defined, RFID_TRIGGERED_BY_LIGHT_BARRIER  *)
(* and RFID_DISPLAY_UPDATE_WHEN_ABSENT are 0 (readers are controlled by    *)
(* alarm times).  The soft timers, the alarm clock, the power-fail module  *)
(* and the EEPROM emulation are not part of the sources; they are          *)
(* modelled from their contract and from their call sites.                 *)
(***************************************************************************)
EXTENDS Integers, Sequences, FiniteSets, TLC

(*************************** program constants *****************************)
\* largest result of an oversampled conversion of the ADC (16 bits)
ADC_MAX == 65535
\* magic word of the calibration data in the EEPROM emulation: 0x0815
MAGIC_ID == 2069
NONE == -1

PWR_OUT_NONE == -1
PWR_OUT_UA1 == 0
PWR_OUT_UA2 == 1
PWR_OUT_BATT == 2
NUM_PWR_OUT == 3

MEASURE_NONE == -1
NUM_MEASURE == 2

RFID_TYPE_NONE == -1
RFID_TYPE_SR == 0
RFID_TYPE_LR == 1

PWR_OFF == FALSE
PWR_ON == TRUE

MIN_VAL_INTERVAL == 10
MIN_VAL_ON_DURATION == 5
MIN_VAL_OFF_DURATION == 5

MIN_SCAN_DURATION == 52
MAX_SCAN_DURATION == 2200
DFLT_SCAN_DURATION == 1000
DFLT_MEASURE_FOLLOW_UP_TIME == 60
DFLT_MEASURE_U_MIN_DIFF == 100
DFLT_MEASURE_I_MIN_DIFF == 10
DFLT_RFID_ABSENT_DETECT_TIMEOUT == 5

Rails == 0 .. (NUM_PWR_OUT - 1)
Units == 0 .. (NUM_MEASURE - 1)

\* l_PwrOutDef[output].Measure
Measure(output) ==
    IF output = PWR_OUT_UA1 THEN 0
    ELSE IF output = PWR_OUT_UA2 THEN 1
    ELSE MEASURE_NONE

\* l_MeasureDef[m].ChanU and .ChanI (ADC channel numbers)
ChanU(m) == IF m = 0 THEN 6 ELSE 7
ChanI(m) == IF m = 0 THEN 0 ELSE 3

(* Alarm ids.  CfgParse binds the alarm id ALARM_UA1_ON_TIME_1 + index to  *)
(* the index of the variable in l_CfgVarList; ids are given relative to    *)
(* ALARM_UA1_ON_TIME_1.                                                    *)
ALARM_UA1_ON_TIME_1 == 0
ALARM_UA2_ON_TIME_1 == 5
ALARM_BATT_ON_TIME_1 == 10
ALARM_UA1_OFF_TIME_1 == 15
ALARM_UA2_OFF_TIME_1 == 20
ALARM_BATT_OFF_TIME_1 == 25
FIRST_POWER_ALARM == 0
LAST_POWER_ALARM == 29
PowerAlarms == FIRST_POWER_ALARM .. LAST_POWER_ALARM

(* Soft timer handles, in the order in which ControlInit() and RFID_Init() *)
(* create them (pool slot order).                                          *)
hdlFollowUpTime(m) == m
l_hdlFollowUpTimeBATT == 2
l_hdlPwrInterval(output) == 3 + output
HDL_ABSENT == 6
Handles == 0 .. 6

(****************************** model bounds *******************************)
\* follow-up time of the measurement units and of BATT_INP in the configurations
CfgFollowUp == 1
\* absence detection timeout in the configurations that enable it
CfgAbsent == 2
\* alarm times the configuration file sets per output and direction (of 5)
CfgAlarmTimes == 1

(************************** bit and byte helpers ***************************)
RECURSIVE BitXor(_, _, _)
BitXor(a, b, n) ==
    IF n = 0 THEN 0
    ELSE (((a % 2) + (b % 2)) % 2) + (2 * BitXor(a \div 2, b \div 2, n - 1))

RECURSIVE BitAnd(_, _, _)
BitAnd(a, b, n) ==
    IF n = 0 THEN 0
    ELSE ((a % 2) * (b % 2)) + (2 * BitAnd(a \div 2, b \div 2, n - 1))

\* HexChar[n] as a character code: '0'..'9' are 48..57, 'A'..'F' are 65..70
HexChar(n) == IF n < 10 THEN 48 + n ELSE 55 + n

\* prefix of a Short Range frame: v[5]
v == <<14, 0, 17, 0, 5>>

EOS == <<>>

VARIABLES
    g_PwrInterval, g_On_Duration, l_ScanDuration, FollowUpTime,
    l_BATT_FollowUpTime,
    g_RFID_Type, g_RFID_Power, g_RFID_AbsentDetectTimeout,
    l_flgRFID_Activate, l_pRFID_Cfg, l_hdlRFID_AbsentDetect,
    l_flgRFID_On, l_flgRFID_IsOn, l_flgNewRun, l_flgNewID,
    l_State, w, xorsum, crc, g_Transponder, uartOn,
    PwrOut, MeasPin, l_ADC_ActiveChanMask, l_flgADC_On,
    l_prev_value_mV, l_prev_value_mA, l_flgLogBATT,
    U_MinDiff, I_MinDiff, l_flgADC_IsOn, flgLogBATT,
    sTimer, alarmEnabled, l_flgPowerFail, pfDone,
    pc, mlEnable, rx, rxPos,
    op, log, disp, calls, rep, pfCut, hist, cal,
    g_isdst, alarmTime, cfgLine,
    l_PwrOut, l_flgOverview, l_MenuIdx, MaxIdx, lcd

cfgVars == <<g_PwrInterval, g_On_Duration, l_ScanDuration, FollowUpTime,
             l_BATT_FollowUpTime, g_RFID_Type, g_RFID_Power,
             g_RFID_AbsentDetectTimeout>>
rfidVars == <<l_flgRFID_Activate, l_pRFID_Cfg, l_hdlRFID_AbsentDetect,
              l_flgRFID_On, l_flgRFID_IsOn, l_flgNewRun, l_flgNewID,
              l_State, w, xorsum, crc, g_Transponder, uartOn>>
ctrlVars == <<PwrOut, MeasPin, l_ADC_ActiveChanMask, l_flgADC_On,
              l_prev_value_mV, l_prev_value_mA, l_flgLogBATT,
              U_MinDiff, I_MinDiff, l_flgADC_IsOn, flgLogBATT>>
\* the clock's daylight-saving flag, the alarm times set with AlarmSet() and
\* the latest line of the configuration file that was parsed
timeVars == <<g_isdst, alarmTime, cfgLine>>
\* the statics of the Power Times menu (DM_PowerTimes.c) and the two lines it
\* has written to the LC-Display
menuVars == <<l_PwrOut, l_flgOverview, l_MenuIdx, MaxIdx, lcd>>
vars == <<cfgVars, rfidVars, ctrlVars, sTimer, alarmEnabled,
          l_flgPowerFail, pfDone,
          pc, mlEnable, rx, rxPos, op, log, disp, calls, rep, pfCut, hist,
          cal, timeVars, menuVars>>

\* the program state as one record
Cur ==
    [g_PwrInterval |-> g_PwrInterval, g_On_Duration |-> g_On_Duration,
     l_ScanDuration |-> l_ScanDuration, FollowUpTime |-> FollowUpTime,
     l_BATT_FollowUpTime |-> l_BATT_FollowUpTime,
     g_RFID_Type |-> g_RFID_Type, g_RFID_Power |-> g_RFID_Power,
     g_RFID_AbsentDetectTimeout |-> g_RFID_AbsentDetectTimeout,
     l_flgRFID_Activate |-> l_flgRFID_Activate, l_pRFID_Cfg |-> l_pRFID_Cfg,
     l_hdlRFID_AbsentDetect |-> l_hdlRFID_AbsentDetect,
     l_flgRFID_On |-> l_flgRFID_On, l_flgRFID_IsOn |-> l_flgRFID_IsOn,
     l_flgNewRun |-> l_flgNewRun, l_flgNewID |-> l_flgNewID,
     l_State |-> l_State, w |-> w, xorsum |-> xorsum, crc |-> crc,
     g_Transponder |-> g_Transponder, uartOn |-> uartOn,
     PwrOut |-> PwrOut, MeasPin |-> MeasPin,
     l_ADC_ActiveChanMask |-> l_ADC_ActiveChanMask,
     l_flgADC_On |-> l_flgADC_On,
     l_prev_value_mV |-> l_prev_value_mV, l_prev_value_mA |-> l_prev_value_mA,
     l_flgLogBATT |-> l_flgLogBATT,
     U_MinDiff |-> U_MinDiff, I_MinDiff |-> I_MinDiff,
     l_flgADC_IsOn |-> l_flgADC_IsOn, flgLogBATT |-> flgLogBATT,
     sTimer |-> sTimer, alarmEnabled |-> alarmEnabled,
     l_flgPowerFail |-> l_flgPowerFail, pfDone |-> pfDone,
     log |-> <<>>, disp |-> <<>>, calls |-> <<>>]

\* the next state is the record s
Set(s) ==
    /\ g_PwrInterval' = s.g_PwrInterval
    /\ g_On_Duration' = s.g_On_Duration
    /\ l_ScanDuration' = s.l_ScanDuration
    /\ FollowUpTime' = s.FollowUpTime
    /\ l_BATT_FollowUpTime' = s.l_BATT_FollowUpTime
    /\ g_RFID_Type' = s.g_RFID_Type
    /\ g_RFID_Power' = s.g_RFID_Power
    /\ g_RFID_AbsentDetectTimeout' = s.g_RFID_AbsentDetectTimeout
    /\ l_flgRFID_Activate' = s.l_flgRFID_Activate
    /\ l_pRFID_Cfg' = s.l_pRFID_Cfg
    /\ l_hdlRFID_AbsentDetect' = s.l_hdlRFID_AbsentDetect
    /\ l_flgRFID_On' = s.l_flgRFID_On
    /\ l_flgRFID_IsOn' = s.l_flgRFID_IsOn
    /\ l_flgNewRun' = s.l_flgNewRun
    /\ l_flgNewID' = s.l_flgNewID
    /\ l_State' = s.l_State
    /\ w' = s.w
    /\ xorsum' = s.xorsum
    /\ crc' = s.crc
    /\ g_Transponder' = s.g_Transponder
    /\ uartOn' = s.uartOn
    /\ PwrOut' = s.PwrOut
    /\ MeasPin' = s.MeasPin
    /\ l_ADC_ActiveChanMask' = s.l_ADC_ActiveChanMask
    /\ l_flgADC_On' = s.l_flgADC_On
    /\ l_prev_value_mV' = s.l_prev_value_mV
    /\ l_prev_value_mA' = s.l_prev_value_mA
    /\ l_flgLogBATT' = s.l_flgLogBATT
    /\ U_MinDiff' = s.U_MinDiff
    /\ I_MinDiff' = s.I_MinDiff
    /\ l_flgADC_IsOn' = s.l_flgADC_IsOn
    /\ flgLogBATT' = s.flgLogBATT
    /\ sTimer' = s.sTimer
    /\ alarmEnabled' = s.alarmEnabled
    /\ l_flgPowerFail' = s.l_flgPowerFail
    /\ pfDone' = s.pfDone
    /\ log' = s.log
    /\ disp' = s.disp
    /\ calls' = s.calls

\* the variables hold the state s
Is(s) ==
    /\ g_PwrInterval = s.g_PwrInterval
    /\ g_On_Duration = s.g_On_Duration
    /\ l_ScanDuration = s.l_ScanDuration
    /\ FollowUpTime = s.FollowUpTime
    /\ l_BATT_FollowUpTime = s.l_BATT_FollowUpTime
    /\ g_RFID_Type = s.g_RFID_Type
    /\ g_RFID_Power = s.g_RFID_Power
    /\ g_RFID_AbsentDetectTimeout = s.g_RFID_AbsentDetectTimeout
    /\ l_flgRFID_Activate = s.l_flgRFID_Activate
    /\ l_pRFID_Cfg = s.l_pRFID_Cfg
    /\ l_hdlRFID_AbsentDetect = s.l_hdlRFID_AbsentDetect
    /\ l_flgRFID_On = s.l_flgRFID_On
    /\ l_flgRFID_IsOn = s.l_flgRFID_IsOn
    /\ l_flgNewRun = s.l_flgNewRun
    /\ l_flgNewID = s.l_flgNewID
    /\ l_State = s.l_State
    /\ w = s.w
    /\ xorsum = s.xorsum
    /\ crc = s.crc
    /\ g_Transponder = s.g_Transponder
    /\ uartOn = s.uartOn
    /\ PwrOut = s.PwrOut
    /\ MeasPin = s.MeasPin
    /\ l_ADC_ActiveChanMask = s.l_ADC_ActiveChanMask
    /\ l_flgADC_On = s.l_flgADC_On
    /\ l_prev_value_mV = s.l_prev_value_mV
    /\ l_prev_value_mA = s.l_prev_value_mA
    /\ l_flgLogBATT = s.l_flgLogBATT
    /\ U_MinDiff = s.U_MinDiff
    /\ I_MinDiff = s.I_MinDiff
    /\ l_flgADC_IsOn = s.l_flgADC_IsOn
    /\ flgLogBATT = s.flgLogBATT
    /\ sTimer = s.sTimer
    /\ alarmEnabled = s.alarmEnabled
    /\ l_flgPowerFail = s.l_flgPowerFail
    /\ pfDone = s.pfDone
    /\ log = s.log
    /\ disp = s.disp
    /\ calls = s.calls

(************************* collaborators (contracts) ***********************)
\* Log() / LogError(): append one line to the log
Log(s, tag, arg) == [s EXCEPT !.log = Append(@, [tag |-> tag, arg |-> arg])]

\* DisplayUpdate(updId)
DisplayUpdate(s, updId) == [s EXCEPT !.disp = Append(@, updId)]

\* sTimerStart(hdl, seconds): arm or re-arm the one-shot countdown
sTimerStart(s, hdl, seconds) ==
    IF hdl = NONE THEN s ELSE [s EXCEPT !.sTimer[hdl] = seconds]

\* sTimerCancel(hdl): disarm
sTimerCancel(s, hdl) ==
    IF hdl = NONE THEN s ELSE [s EXCEPT !.sTimer[hdl] = 0]

\* IsPowerFail(): the power-fail condition is asserted
IsPowerFail(s) == s.l_flgPowerFail

(******************************* Control.c *********************************)
\* mutant: the check of the OFF duration is missing
VerifyRail_NoOffCheck(s, i) ==
    LET interval == s.g_PwrInterval[i]
        duration == s.g_On_Duration[i]
        invalid(t, msg) ==
            [Log(t, "LogError", <<i, msg>>)
                EXCEPT !.g_PwrInterval[i] = -1, !.g_On_Duration[i] = -1]
    IN  IF interval <= 0 THEN s
        ELSE IF interval < MIN_VAL_INTERVAL THEN invalid(s, 1)
        ELSE IF duration < MIN_VAL_ON_DURATION THEN invalid(s, 2)
        ELSE s

\* VerifyConfiguration(), one pass of the loop over the power outputs
VerifyRail(s, i) ==
    LET interval == s.g_PwrInterval[i]
        duration == s.g_On_Duration[i]
        invalid(t, msg) ==
            [Log(t, "LogError", <<i, msg>>)
                EXCEPT !.g_PwrInterval[i] = -1, !.g_On_Duration[i] = -1]
    IN  IF interval <= 0 THEN s
        ELSE IF interval < MIN_VAL_INTERVAL THEN invalid(s, 1)
        ELSE IF duration < MIN_VAL_ON_DURATION THEN invalid(s, 2)
        ELSE IF interval - duration < MIN_VAL_OFF_DURATION THEN invalid(s, 3)
        ELSE s

VerifyConfiguration(s) ==
    LET s1 == VerifyRail(VerifyRail(VerifyRail(s, 0), 1), 2)
    IN  IF s1.l_ScanDuration < MIN_SCAN_DURATION
        THEN [Log(s1, "LogError", <<NONE, 4>>)
                 EXCEPT !.l_ScanDuration = MIN_SCAN_DURATION]
        ELSE IF s1.l_ScanDuration > MAX_SCAN_DURATION
        THEN [Log(s1, "LogError", <<NONE, 5>>)
                 EXCEPT !.l_ScanDuration = MAX_SCAN_DURATION]
        ELSE s1

\* IsPowerOutputOn()
IsPowerOutputOn(s, output) ==
    IF output = PWR_OUT_NONE THEN FALSE ELSE s.PwrOut[output]

\* PowerOutput(), lines 772-791: TRUE iff the call goes on to switch
PowerOutputProceeds(s, output, enable) ==
    /\ ~(enable /\ IsPowerFail(s))
    /\ output # PWR_OUT_NONE
    /\ output \in Rails
    /\ s.PwrOut[output] # enable

\* PowerOutput(), lines 794-799: switch the output
PowerOutputPin(s, output, enable) ==
    Log([s EXCEPT !.PwrOut[output] = enable],
        "PowerOutput", <<output, IF enable THEN 1 ELSE 0>>)

\* PowerOutput(), lines 801-858: the measurement of the switched output
PowerOutputMeasure(s1, output, enable) ==
    LET m == Measure(output)
        s2 == IF m = MEASURE_NONE THEN s1
              ELSE IF enable
              THEN [sTimerCancel(s1, hdlFollowUpTime(m)) EXCEPT
                      !.MeasPin[m] = TRUE,
                      !.l_ADC_ActiveChanMask = @ \cup {ChanU(m), ChanI(m)},
                      !.l_prev_value_mV[m] = <<0, 0>>,
                      !.l_prev_value_mA[m] = <<0, 0>>,
                      !.l_flgADC_On = TRUE]
              ELSE sTimerStart(s1, hdlFollowUpTime(m), s1.FollowUpTime[m])
        s3 == IF output # PWR_OUT_BATT THEN s2
              ELSE IF enable
              THEN [Log(sTimerCancel(s2, l_hdlFollowUpTimeBATT),
                        "BATT_INP", <<1>>)
                       EXCEPT !.l_flgLogBATT = TRUE]
              ELSE sTimerStart(s2, l_hdlFollowUpTimeBATT,
                               s2.l_BATT_FollowUpTime)
    IN  DisplayUpdate(s3, "UPD_POWERSTATUS")

\* PowerOutput(), lines 794-858: switch the output and its measurement
PowerOutputBody(s, output, enable) ==
    PowerOutputMeasure(PowerOutputPin(s, output, enable), output, enable)

\* mutant: the check "already in the right state" is missing
PowerOutput_NoStateCheck(s, output, enable) ==
    IF enable /\ IsPowerFail(s) THEN s
    ELSE IF output = PWR_OUT_NONE THEN s
    ELSE IF output \notin Rails
    THEN Log(s, "LogError", <<output, 0>>)
    ELSE PowerOutputBody(s, output, enable)

\* mutant: the power-fail guard is missing
PowerOutput_NoPowerFailGuard(s, output, enable) ==
    IF output = PWR_OUT_NONE THEN s
    ELSE IF output \notin Rails
    THEN Log(s, "LogError", <<output, 0>>)
    ELSE IF s.PwrOut[output] = enable THEN s
    ELSE PowerOutputBody(s, output, enable)

\* PowerOutput()
PowerOutput(s, output, enable) ==
    IF enable /\ IsPowerFail(s) THEN s
    ELSE IF output = PWR_OUT_NONE THEN s
    ELSE IF output \notin Rails
    THEN Log(s, "LogError", <<output, 0>>)
    ELSE IF s.PwrOut[output] = enable THEN s
    ELSE PowerOutputBody(s, output, enable)

\* mutant: the loop over the outputs stops before BATT
ControlPowerFailHandler_SkipBATT(s) ==
    LET s0 == Log(s, "AllOff", <<>>)
    IN  PowerOutput(PowerOutput(s0, 0, PWR_OFF), 1, PWR_OFF)

\* ControlPowerFailHandler()
ControlPowerFailHandler(s) ==
    LET s0 == Log(s, "AllOff", <<>>)
    IN  PowerOutput(PowerOutput(PowerOutput(s0, 0, PWR_OFF), 1, PWR_OFF),
                    2, PWR_OFF)

\* mutant: the measuring facility stays enabled
MeasureStop_KeepPin(s, hdl) ==
    IF hdl \notin Units THEN s
    ELSE LET m == hdl
             mask == s.l_ADC_ActiveChanMask \ {ChanU(m), ChanI(m)}
         IN  [s EXCEPT !.l_ADC_ActiveChanMask = mask,
                       !.l_flgADC_On = IF mask = {} THEN FALSE ELSE @]

\* MeasureStop(hdl)
MeasureStop(s, hdl) ==
    IF hdl \notin Units THEN s
    ELSE LET m == hdl
             mask == s.l_ADC_ActiveChanMask \ {ChanU(m), ChanI(m)}
         IN  [s EXCEPT !.l_ADC_ActiveChanMask = mask,
                       !.l_flgADC_On = IF mask = {} THEN FALSE ELSE @,
                       !.MeasPin[m] = FALSE]

\* MeasureStopBATT(hdl)
MeasureStopBATT(s) ==
    Log([s EXCEPT !.l_flgLogBATT = FALSE], "BATT_INP", <<0>>)


\* the call a power callback makes for its output: recorded in calls
Bridge(s, fn, pwrOut, pwrState) ==
    [s EXCEPT !.calls = Append(@, [fn |-> fn, rail |-> pwrOut,
                                   en |-> pwrState])]

(******************************** RFID.c ***********************************)
\* mutant: RFID_PowerOff() does not reset the decoder position
RFID_PowerOff_KeepState(s) ==
    LET s1 == PowerOutput(s, s.l_pRFID_Cfg.RFID_PwrOut, PWR_OFF)
    IN  Log([s1 EXCEPT !.uartOn = FALSE], "RFID_Power", <<0>>)

\* RFID_PowerOff()
RFID_PowerOff(s) ==
    LET s1 == PowerOutput(s, s.l_pRFID_Cfg.RFID_PwrOut, PWR_OFF)
    IN  Log([s1 EXCEPT !.uartOn = FALSE, !.l_State = 0], "RFID_Power", <<0>>)

\* RFID_Init()
RFID_Init(s) ==
    LET s1 == IF s.l_flgRFID_Activate THEN RFID_PowerOff(s) ELSE s
        s2 == [s1 EXCEPT !.l_flgRFID_Activate = FALSE]
    IN  IF s2.g_RFID_Type = RFID_TYPE_NONE \/ s2.g_RFID_Power = PWR_OUT_NONE
        THEN s2
        ELSE LET s3 == Log([s2 EXCEPT
                              !.l_pRFID_Cfg = [RFID_Type |-> s2.g_RFID_Type,
                                               RFID_PwrOut |-> s2.g_RFID_Power],
                              !.l_flgRFID_Activate = TRUE],
                           "RFID_Init", <<s2.g_RFID_Type, s2.g_RFID_Power>>)
             IN  IF s3.g_RFID_AbsentDetectTimeout > 0
                 THEN Log([s3 EXCEPT !.l_hdlRFID_AbsentDetect =
                              IF @ = NONE THEN HDL_ABSENT ELSE @],
                          "RFID_Absent", <<s3.g_RFID_AbsentDetectTimeout>>)
                 ELSE Log(s3, "RFID_Absent", <<0>>)

\* RFID_Enable()
RFID_Enable(s) == [s EXCEPT !.l_flgRFID_On = TRUE, !.l_flgNewRun = TRUE]

\* mutant: the power-off is deferred whenever an ID is stored
RFID_Disable_DeferOnID(s) ==
    IF ~s.l_flgRFID_On THEN s
    ELSE LET s1 == [s EXCEPT !.l_flgRFID_On = FALSE]
         IN  IF s1.g_Transponder = EOS
             THEN LET s2 == sTimerCancel(s1, s1.l_hdlRFID_AbsentDetect)
                  IN  IF s2.l_flgRFID_IsOn
                      THEN [RFID_PowerOff(s2) EXCEPT !.l_flgRFID_IsOn = FALSE]
                      ELSE s2
             ELSE Log(s1, "RFID_Deferred", <<>>)

\* RFID_Disable()
RFID_Disable(s) ==
    IF ~s.l_flgRFID_On THEN s
    ELSE LET s1 == [s EXCEPT !.l_flgRFID_On = FALSE]
         IN  IF s1.g_RFID_AbsentDetectTimeout = 0 \/ s1.g_Transponder = EOS
             THEN LET s2 == sTimerCancel(s1, s1.l_hdlRFID_AbsentDetect)
                  IN  IF s2.l_flgRFID_IsOn
                      THEN [RFID_PowerOff(s2) EXCEPT !.l_flgRFID_IsOn = FALSE]
                      ELSE s2
             ELSE Log(s1, "RFID_Deferred", <<>>)

\* RFID_PowerOn()
RFID_PowerOn(s) ==
    IF ~s.l_flgRFID_Activate THEN s
    ELSE LET s1 == Log(s, "RFID_Power", <<1>>)
             s2 == [s1 EXCEPT !.uartOn = TRUE]
             s3 == PowerOutput(s2, s2.l_pRFID_Cfg.RFID_PwrOut, PWR_ON)
         IN  [s3 EXCEPT !.l_State = 0]

\* RFID_PowerFailHandler()
RFID_PowerFailHandler(s) ==
    LET s1 == [s EXCEPT !.l_flgRFID_On = FALSE]
    IN  IF s1.l_flgRFID_IsOn
        THEN [RFID_PowerOff(s1) EXCEPT !.l_flgRFID_IsOn = FALSE]
        ELSE s1

\* mutant: the stored ID is logged as absent and kept
TransponderAbsent_NoClear(s) ==
    Log(s, "Absent", s.g_Transponder)

\* TransponderAbsent(hdl)
TransponderAbsent(s) ==
    [Log(s, "Absent", s.g_Transponder) EXCEPT !.g_Transponder = EOS]

\* RFID_Decode(), the CRC-CCITT (KERMIT) update for one byte
CrcUpdate(c, byte) ==
    LET val1 == BitXor(c \div 16,
                       BitAnd(BitXor(c, byte, 16), 15, 16) * 4225, 16)
        val2 == BitXor(val1 \div 16,
                       BitAnd(BitXor(val1, byte \div 16, 16), 15, 16) * 4225,
                       16)
    IN  val2 % 65536

\* RFID_Decode(), lines 847-852: the ID string built from the frame buffer
NewTransponder(buf) ==
    [k \in 1 .. 16 |->
        LET i == (k - 1) \div 2
        IN  IF (k - 1) % 2 = 0 THEN HexChar((buf[8 - i] \div 16) % 16)
            ELSE HexChar(buf[8 - i] % 16)]

\* mutant: a new run does not make the first frame a new ID
ReceivedID_NoNewRun(s) ==
    LET s1 == [s EXCEPT !.l_State = 0, !.l_flgNewRun = FALSE]
        newTransponder == NewTransponder(s1.w)
        s2 == IF newTransponder # s1.g_Transponder
              THEN [s1 EXCEPT !.g_Transponder = newTransponder,
                              !.l_flgNewID = TRUE]
              ELSE s1
    IN  IF s2.g_RFID_AbsentDetectTimeout > 0
        THEN sTimerStart(s2, s2.l_hdlRFID_AbsentDetect,
                         s2.g_RFID_AbsentDetectTimeout)
        ELSE s2

\* mutant: the absence timer is restarted for a new ID only
ReceivedID_TimerOnNewID(s) ==
    LET s1 == [s EXCEPT !.l_State = 0]
        newTransponder == NewTransponder(s1.w)
    IN  IF s1.l_flgNewRun \/ newTransponder # s1.g_Transponder
        THEN LET s2 == [s1 EXCEPT !.l_flgNewRun = FALSE,
                                  !.g_Transponder = newTransponder,
                                  !.l_flgNewID = TRUE]
             IN  IF s2.g_RFID_AbsentDetectTimeout > 0
                 THEN sTimerStart(s2, s2.l_hdlRFID_AbsentDetect,
                                  s2.g_RFID_AbsentDetectTimeout)
                 ELSE s2
        ELSE s1

\* RFID_Decode(), lines 843-880: a transponder ID has been received
ReceivedID(s) ==
    LET s1 == [s EXCEPT !.l_State = 0]
        newTransponder == NewTransponder(s1.w)
        s2 == IF s1.l_flgNewRun \/ newTransponder # s1.g_Transponder
              THEN [s1 EXCEPT !.l_flgNewRun = FALSE,
                              !.g_Transponder = newTransponder,
                              !.l_flgNewID = TRUE]
              ELSE s1
    IN  IF s2.g_RFID_AbsentDetectTimeout > 0
        THEN sTimerStart(s2, s2.l_hdlRFID_AbsentDetect,
                         s2.g_RFID_AbsentDetectTimeout)
        ELSE s2

\* mutant: the received checksum is not compared
DecodeSR_NoXorCheck(s, byte) ==
    LET st == s.l_State
        s0 == IF st = 0 THEN [s EXCEPT !.xorsum = 0] ELSE s
    IN  IF st \in 0 .. 4 /\ byte # v[st + 1]
        THEN [s0 EXCEPT !.l_State = 0]
        ELSE IF st \in 0 .. 12
        THEN [s0 EXCEPT !.xorsum = BitXor(@, byte, 8), !.l_State = st + 1]
        ELSE IF st = 13
        THEN ReceivedID(s0)
        ELSE [s0 EXCEPT !.l_State = 0]

\* RFID_Decode(), case RFID_TYPE_SR
DecodeSR(s, byte) ==
    LET st == s.l_State
        s0 == IF st = 0 THEN [s EXCEPT !.xorsum = 0] ELSE s
    IN  IF st \in 0 .. 4 /\ byte # v[st + 1]
        THEN [s0 EXCEPT !.l_State = 0]
        ELSE IF st \in 0 .. 12
        THEN [s0 EXCEPT !.xorsum = BitXor(@, byte, 8), !.l_State = st + 1]
        ELSE IF st = 13
        THEN IF s0.w[13] # s0.xorsum
             THEN [Log(s0, "LogError",
                       <<s0.w[13], s0.xorsum>> \o [i \in 1 .. 14 |-> s0.w[i - 1]])
                      EXCEPT !.l_State = 0]
             ELSE ReceivedID(s0)
        ELSE [s0 EXCEPT !.l_State = 0]

\* RFID_Decode(), case RFID_TYPE_LR
DecodeLR(s, byte) ==
    LET st == s.l_State
    IN  IF st = 0 /\ byte # 84
        THEN [s EXCEPT !.l_State = 0]
        ELSE IF st \in 0 .. 1
        THEN [s EXCEPT !.crc = CrcUpdate(0, byte), !.l_State = st + 1]
        ELSE IF st \in 2 .. 8
        THEN [s EXCEPT !.crc = CrcUpdate(@, byte), !.l_State = st + 1]
        ELSE IF st = 9
        THEN [s EXCEPT !.l_State = st + 1]
        ELSE IF st = 10
        THEN LET val == (s.w[10] * 256) + s.w[9]
             IN  IF val # s.crc
                 THEN [Log(s, "LogError",
                           <<val, s.crc>> \o [i \in 1 .. 11 |-> s.w[i - 1]])
                          EXCEPT !.l_State = 0]
                 ELSE ReceivedID(s)
        ELSE [s EXCEPT !.l_State = 0]

\* RFID_Decode(byte)
RFID_Decode(s, byte) ==
    LET s0 == [s EXCEPT !.w[s.l_State] = byte]
        type == s0.l_pRFID_Cfg.RFID_Type
    IN  IF type = RFID_TYPE_SR THEN DecodeSR(s0, byte)
        ELSE IF type = RFID_TYPE_LR THEN DecodeLR(s0, byte)
        ELSE [s0 EXCEPT !.l_State = 0]

\* the UART receive interrupt for each byte of a sequence, in order
RECURSIVE DecodeAll(_, _)
DecodeAll(s, bytes) ==
    IF bytes = <<>> THEN s
    ELSE DecodeAll(RFID_Decode(s, Head(bytes)), Tail(bytes))

(************************ Control.c: power callbacks ***********************)
\* AlarmPowerControl(), lines 904-931: switching state and power output
AlarmState(alarmNum) ==
    IF alarmNum >= ALARM_UA1_OFF_TIME_1 THEN PWR_OFF ELSE PWR_ON

\* mutant: the ON and OFF times of an output are taken to be adjacent
AlarmOutput_Adjacent(alarmNum) ==
    IF alarmNum >= ALARM_UA2_OFF_TIME_1 THEN PWR_OUT_BATT
    ELSE IF alarmNum >= ALARM_BATT_ON_TIME_1 THEN PWR_OUT_UA2
    ELSE PWR_OUT_UA1

AlarmOutput(alarmNum) ==
    IF alarmNum >= ALARM_BATT_OFF_TIME_1 THEN PWR_OUT_BATT
    ELSE IF alarmNum >= ALARM_UA2_OFF_TIME_1 THEN PWR_OUT_UA2
    ELSE IF alarmNum >= ALARM_UA1_OFF_TIME_1 THEN PWR_OUT_UA1
    ELSE IF alarmNum >= ALARM_BATT_ON_TIME_1 THEN PWR_OUT_BATT
    ELSE IF alarmNum >= ALARM_UA2_ON_TIME_1 THEN PWR_OUT_UA2
    ELSE PWR_OUT_UA1

\* mutant: the output of the RFID reader is switched like any other
SwitchOutput_Direct(s, pwrOut, pwrState) ==
    PowerOutput(Bridge(s, "PowerOutput", pwrOut, pwrState), pwrOut, pwrState)

\* AlarmPowerControl() and IntervalPowerControl(): RFID reader or plain output
SwitchOutput(s, pwrOut, pwrState) ==
    IF pwrOut = s.g_RFID_Power
    THEN IF pwrState = PWR_ON
         THEN RFID_Enable(Bridge(s, "RFID_Enable", pwrOut, pwrState))
         ELSE RFID_Disable(Bridge(s, "RFID_Disable", pwrOut, pwrState))
    ELSE PowerOutput(Bridge(s, "PowerOutput", pwrOut, pwrState),
                     pwrOut, pwrState)

\* mutant: an OFF alarm leaves the power-cycle timer running
AlarmPowerControl_NoCancel(s, alarmNum) ==
    LET pwrState == AlarmState(alarmNum)
        pwrOut == AlarmOutput(alarmNum)
        s1 == IF pwrState = PWR_ON
                 /\ s.g_On_Duration[pwrOut] >= MIN_VAL_ON_DURATION
              THEN sTimerStart(s, l_hdlPwrInterval(pwrOut),
                               s.g_On_Duration[pwrOut])
              ELSE s
    IN  SwitchOutput(s1, pwrOut, pwrState)

\* AlarmPowerControl(alarmNum)
AlarmPowerControl(s, alarmNum) ==
    LET pwrState == AlarmState(alarmNum)
        pwrOut == AlarmOutput(alarmNum)
        s1 == IF pwrState = PWR_OFF
              THEN sTimerCancel(s, l_hdlPwrInterval(pwrOut))
              ELSE IF s.g_On_Duration[pwrOut] >= MIN_VAL_ON_DURATION
              THEN sTimerStart(s, l_hdlPwrInterval(pwrOut),
                               s.g_On_Duration[pwrOut])
              ELSE s
    IN  SwitchOutput(s1, pwrOut, pwrState)

\* mutant: the durations of the two phases are exchanged
IntervalPowerControl_Swapped(s, hdl) ==
    LET pwrOut == hdl - 3
    IN  IF pwrOut \notin Rails
        THEN Log(s, "LogError", <<hdl, 6>>)
        ELSE IF s.g_PwrInterval[pwrOut] < MIN_VAL_INTERVAL THEN s
        ELSE IF IsPowerOutputOn(s, pwrOut)
        THEN SwitchOutput(
                 sTimerStart(s, l_hdlPwrInterval(pwrOut),
                             s.g_On_Duration[pwrOut]),
                 pwrOut, PWR_OFF)
        ELSE SwitchOutput(
                 sTimerStart(s, l_hdlPwrInterval(pwrOut),
                     s.g_PwrInterval[pwrOut] - s.g_On_Duration[pwrOut]),
                 pwrOut, PWR_ON)

\* IntervalPowerControl(hdl)
IntervalPowerControl(s, hdl) ==
    LET pwrOut == hdl - 3
    IN  IF pwrOut \notin Rails
        THEN Log(s, "LogError", <<hdl, 6>>)
        ELSE IF s.g_PwrInterval[pwrOut] < MIN_VAL_INTERVAL THEN s
        ELSE IF IsPowerOutputOn(s, pwrOut)
        THEN SwitchOutput(
                 sTimerStart(s, l_hdlPwrInterval(pwrOut),
                     s.g_PwrInterval[pwrOut] - s.g_On_Duration[pwrOut]),
                 pwrOut, PWR_OFF)
        ELSE SwitchOutput(
                 sTimerStart(s, l_hdlPwrInterval(pwrOut),
                             s.g_On_Duration[pwrOut]),
                 pwrOut, PWR_ON)

(************************** soft timers: the tick **************************)
\* the callback bound to a timer handle by sTimerCreate()
TimerCallback(s, hdl) ==
    IF hdl \in Units THEN MeasureStop(s, hdl)
    ELSE IF hdl = l_hdlFollowUpTimeBATT THEN MeasureStopBATT(s)
    ELSE IF hdl = HDL_ABSENT THEN TransponderAbsent(s)
    ELSE IntervalPowerControl(s, hdl)

\* one RTC second: armed countdowns are decremented in slot order, a
\* countdown that reaches zero is disarmed and its callback is called
RECURSIVE TickFrom(_, _)
TickFrom(s, hdl) ==
    IF hdl \notin Handles THEN s
    ELSE IF s.sTimer[hdl] = 0 THEN TickFrom(s, hdl + 1)
    ELSE LET s1 == [s EXCEPT !.sTimer[hdl] = @ - 1]
         IN  IF s1.sTimer[hdl] = 0
             THEN TickFrom(TimerCallback(s1, hdl), hdl + 1)
             ELSE TickFrom(s1, hdl + 1)


(*************************** service loop (main.c) *************************)
\* RFID_Check(), lines 516-545, up to the entry checks of the PowerOutput()
\* call it makes through RFID_PowerOn() or RFID_PowerOff()
RFID_PowerOffRest(s) ==
    Log([s EXCEPT !.uartOn = FALSE, !.l_State = 0], "RFID_Power", <<0>>)

\* mutant: a powered reader that is not enabled is powered off at once
RFID_CheckPower_NoDefer(s) ==
    LET out == s.l_pRFID_Cfg.RFID_PwrOut
    IN  IF s.l_flgRFID_On
        THEN IF s.l_flgRFID_IsOn THEN [s |-> s, pc |-> "loop", en |-> FALSE]
             ELSE IF ~s.l_flgRFID_Activate
             THEN [s |-> [s EXCEPT !.l_flgRFID_IsOn = TRUE],
                   pc |-> "loop", en |-> FALSE]
             ELSE LET s1 == [Log(s, "RFID_Power", <<1>>) EXCEPT !.uartOn = TRUE]
                  IN  IF PowerOutputProceeds(s1, out, PWR_ON)
                      THEN [s |-> s1, pc |-> "pwr", en |-> TRUE]
                      ELSE [s |-> [s1 EXCEPT !.l_State = 0,
                                             !.l_flgRFID_IsOn = TRUE],
                            pc |-> "loop", en |-> FALSE]
        ELSE IF s.l_flgRFID_IsOn
        THEN LET s1 == sTimerCancel(s, s.l_hdlRFID_AbsentDetect)
             IN  IF PowerOutputProceeds(s1, out, PWR_OFF)
                 THEN [s |-> s1, pc |-> "pwr", en |-> FALSE]
                 ELSE [s |-> [RFID_PowerOffRest(s1)
                                 EXCEPT !.l_flgRFID_IsOn = FALSE],
                       pc |-> "loop", en |-> FALSE]
        ELSE [s |-> s, pc |-> "loop", en |-> FALSE]

RFID_CheckPower(s) ==
    LET out == s.l_pRFID_Cfg.RFID_PwrOut
    IN  IF s.l_flgRFID_On
        THEN IF s.l_flgRFID_IsOn THEN [s |-> s, pc |-> "loop", en |-> FALSE]
             ELSE IF ~s.l_flgRFID_Activate
             THEN [s |-> [s EXCEPT !.l_flgRFID_IsOn = TRUE],
                   pc |-> "loop", en |-> FALSE]
             ELSE LET s1 == [Log(s, "RFID_Power", <<1>>) EXCEPT !.uartOn = TRUE]
                  IN  IF PowerOutputProceeds(s1, out, PWR_ON)
                      THEN [s |-> s1, pc |-> "pwr", en |-> TRUE]
                      ELSE [s |-> [s1 EXCEPT !.l_State = 0,
                                             !.l_flgRFID_IsOn = TRUE],
                            pc |-> "loop", en |-> FALSE]
        ELSE IF s.l_flgRFID_IsOn
                /\ (s.g_RFID_AbsentDetectTimeout = 0 \/ s.g_Transponder = EOS)
        THEN LET s1 == sTimerCancel(s, s.l_hdlRFID_AbsentDetect)
             IN  IF PowerOutputProceeds(s1, out, PWR_OFF)
                 THEN [s |-> s1, pc |-> "pwr", en |-> FALSE]
                 ELSE [s |-> [RFID_PowerOffRest(s1)
                                 EXCEPT !.l_flgRFID_IsOn = FALSE],
                       pc |-> "loop", en |-> FALSE]
        ELSE [s |-> s, pc |-> "loop", en |-> FALSE]

\* RFID_PowerOn() or RFID_PowerOff() after the PowerOutput() call, and the
\* assignment to l_flgRFID_IsOn in RFID_Check()
RFID_CheckRest(s1, enable) ==
    IF enable
    THEN [s1 EXCEPT !.l_State = 0, !.l_flgRFID_IsOn = TRUE]
    ELSE [RFID_PowerOffRest(s1) EXCEPT !.l_flgRFID_IsOn = FALSE]

\* RFID_Check(): the body of the PowerOutput() call and the rest of
\* RFID_PowerOn() or RFID_PowerOff()
RFID_CheckSwitch(s, enable) ==
    RFID_CheckRest(PowerOutputBody(s, s.l_pRFID_Cfg.RFID_PwrOut, enable),
                   enable)

\* RFID_Check(), lines 547-556, with ControlUpdateID()
RFID_CheckNewID(s) ==
    IF s.l_flgNewID
    THEN DisplayUpdate(Log([s EXCEPT !.l_flgNewID = FALSE],
                           "Transponder", s.g_Transponder),
                       "UPD_TRANSPONDER")
    ELSE s

\* PowerFailCheck(): on power-fail the handlers of l_PowerFailFct are
\* called once, in the order of the array
PowerFailCheck(s) ==
    IF IsPowerFail(s) /\ ~s.pfDone
    THEN [ControlPowerFailHandler(RFID_PowerFailHandler(s))
             EXCEPT !.pfDone = TRUE]
    ELSE s

(******************************* configurations ****************************)
\* the state after ControlInit(): outputs off, timers created and idle
Boot ==
    [g_PwrInterval |-> [r \in Rails |-> 0],
     g_On_Duration |-> [r \in Rails |-> 0],
     l_ScanDuration |-> DFLT_SCAN_DURATION,
     FollowUpTime |-> [m \in Units |-> DFLT_MEASURE_FOLLOW_UP_TIME],
     l_BATT_FollowUpTime |-> DFLT_MEASURE_FOLLOW_UP_TIME,
     g_RFID_Type |-> RFID_TYPE_NONE, g_RFID_Power |-> PWR_OUT_NONE,
     g_RFID_AbsentDetectTimeout |-> DFLT_RFID_ABSENT_DETECT_TIMEOUT,
     l_flgRFID_Activate |-> FALSE,
     l_pRFID_Cfg |-> [RFID_Type |-> 0, RFID_PwrOut |-> 0],
     l_hdlRFID_AbsentDetect |-> NONE,
     l_flgRFID_On |-> FALSE, l_flgRFID_IsOn |-> FALSE,
     l_flgNewRun |-> FALSE, l_flgNewID |-> FALSE,
     l_State |-> 0, w |-> [i \in 0 .. 13 |-> 0], xorsum |-> 0, crc |-> 0,
     g_Transponder |-> EOS, uartOn |-> FALSE,
     PwrOut |-> [r \in Rails |-> FALSE], MeasPin |-> [m \in Units |-> FALSE],
     l_ADC_ActiveChanMask |-> {}, l_flgADC_On |-> FALSE,
     l_prev_value_mV |-> [m \in Units |-> <<0, 0>>],
     l_prev_value_mA |-> [m \in Units |-> <<0, 0>>],
     l_flgLogBATT |-> FALSE,
     U_MinDiff |-> [m \in Units |-> DFLT_MEASURE_U_MIN_DIFF],
     I_MinDiff |-> [m \in Units |-> DFLT_MEASURE_I_MIN_DIFF],
     l_flgADC_IsOn |-> FALSE, flgLogBATT |-> FALSE,
     sTimer |-> [h \in Handles |-> 0], alarmEnabled |-> {},
     l_flgPowerFail |-> FALSE, pfDone |-> FALSE,
     log |-> <<>>, disp |-> <<>>, calls |-> <<>>]

\* ClearConfiguration()
ClearConfiguration(s) ==
    [s EXCEPT !.alarmEnabled = {},
              !.g_PwrInterval = [r \in Rails |-> 0],
              !.g_On_Duration = [r \in Rails |-> 0],
              !.g_RFID_Type = RFID_TYPE_NONE,
              !.g_RFID_Power = PWR_OUT_NONE,
              !.g_RFID_AbsentDetectTimeout = DFLT_RFID_ABSENT_DETECT_TIMEOUT,
              !.l_ScanDuration = DFLT_SCAN_DURATION,
              !.FollowUpTime = [m \in Units |-> DFLT_MEASURE_FOLLOW_UP_TIME],
              !.U_MinDiff = [m \in Units |-> DFLT_MEASURE_U_MIN_DIFF],
              !.I_MinDiff = [m \in Units |-> DFLT_MEASURE_I_MIN_DIFF],
              !.l_BATT_FollowUpTime = DFLT_MEASURE_FOLLOW_UP_TIME]

\* the values CfgRead() stores for a configuration file c
CfgRead(s, c) ==
    [s EXCEPT !.g_PwrInterval = c.interval,
              !.g_On_Duration = c.duration,
              !.l_ScanDuration = c.scan,
              !.FollowUpTime = [m \in Units |-> c.followUp],
              !.l_BATT_FollowUpTime = c.followUp,
              !.g_RFID_Type = c.type,
              !.g_RFID_Power = c.power,
              !.g_RFID_AbsentDetectTimeout = c.absent,
              !.alarmEnabled = { a \in PowerAlarms :
                                   /\ (a % 5) < CfgAlarmTimes
                                   /\ ((a \div 5) % 3) \in c.times }]

\* main(), lines 620-630: a configuration file is loaded
LoadConfiguration(s, c) ==
    RFID_Init(VerifyConfiguration(CfgRead(ClearConfiguration(s), c)))

Tup(a, b, c) == [r \in Rails |-> IF r = 0 THEN a ELSE IF r = 1 THEN b ELSE c]

\* the configuration files of the model: the values of ON_DURATION and
\* INTERVAL per output, the outputs with ON and OFF times, the reader
Configs ==
    { \* no reader; UA1 cycles
      [interval |-> Tup(10, 0, 0), duration |-> Tup(5, 0, 0),
       times |-> {PWR_OUT_UA1, PWR_OUT_BATT},
       type |-> RFID_TYPE_NONE, power |-> PWR_OUT_NONE, absent |-> 0,
       scan |-> DFLT_SCAN_DURATION, followUp |-> CfgFollowUp],
      \* Short Range reader on UA2; UA2 cycles; the values of UA1 are
      \* rejected
      [interval |-> Tup(8, 10, 0), duration |-> Tup(5, 5, 0),
       times |-> {PWR_OUT_UA1, PWR_OUT_UA2},
       type |-> RFID_TYPE_SR, power |-> PWR_OUT_UA2, absent |-> 0,
       scan |-> DFLT_SCAN_DURATION, followUp |-> CfgFollowUp],
      \* the file sets RFID_POWER to UA2 and no RFID_TYPE; UA1 cycles
      [interval |-> Tup(10, 0, 0), duration |-> Tup(5, 0, 0),
       times |-> {PWR_OUT_UA1, PWR_OUT_UA2},
       type |-> RFID_TYPE_NONE, power |-> PWR_OUT_UA2, absent |-> 0,
       scan |-> DFLT_SCAN_DURATION, followUp |-> CfgFollowUp],
      \* the file sets RFID_POWER to UA2 and no RFID_TYPE; UA1 has an ON
      \* duration without an interval
      [interval |-> Tup(0, 0, 0), duration |-> Tup(6, 0, 0),
       times |-> {PWR_OUT_UA1, PWR_OUT_UA2},
       type |-> RFID_TYPE_NONE, power |-> PWR_OUT_UA2, absent |-> 0,
       scan |-> DFLT_SCAN_DURATION, followUp |-> CfgFollowUp] }

(********************************* frames **********************************)
\* RFID_Decode(): the checksum a reader appends to a Short Range frame
RECURSIVE XorAll(_)
XorAll(bytes) ==
    IF bytes = <<>> THEN 0 ELSE BitXor(Head(bytes), XorAll(Tail(bytes)), 8)

\* a well-formed Short Range frame with the payload p (8 bytes)
FrameSR(p) == LET body == v \o p IN body \o <<XorAll(body)>>

\* RFID_Decode(): the CRC a reader appends to a Long Range frame
RECURSIVE CrcAll(_, _)
CrcAll(c, bytes) ==
    IF bytes = <<>> THEN c ELSE CrcAll(CrcUpdate(c, Head(bytes)), Tail(bytes))

\* a well-formed Long Range frame with the payload p (8 bytes)
FrameLR(p) ==
    LET c == CrcAll(0, p) IN <<84>> \o p \o <<c % 256, c \div 256>>

\* the payloads of the transponders in range of the reader
Payloads == { <<1, 35, 69, 103, 137, 171, 205, 239>>,
              <<1, 35, 69, 103, 16, 50, 84, 118>> }

Frame(type, p) == IF type = RFID_TYPE_SR THEN FrameSR(p) ELSE FrameLR(p)

\* RFID_Decode(): the length of a frame
FrameLen(type) == IF type = RFID_TYPE_SR THEN 14 ELSE 11

\* the payload of the well-formed frame that ends with byte pos of the
\* stream, <<>> if there is none
FrameAt(stream, type, pos) ==
    IF pos < FrameLen(type) \/ pos > Len(stream) THEN <<>>
    ELSE LET f == SubSeq(stream, pos - FrameLen(type) + 1, pos)
             ps == { p \in Payloads : Frame(type, p) = f }
         IN  IF ps = {} THEN <<>> ELSE CHOOSE p \in ps : TRUE

(************************ Control.c: calibration ***************************)
\* a uint32_t value is the pair <<high, low>> of its 16-bit halves
U32(n) == <<(n \div 65536) % 65536, n % 65536>>

\* value << 16 in uint32_t arithmetic
Shl16(value) == <<value % 65536, 0>>

\* 1L << 16, the divider without calibration
Unity == <<1, 0>>

\* a <= b for uint32_t values
U32Le(a, b) == a[1] < b[1] \/ (a[1] = b[1] /\ a[2] <= b[2])

\* q * d <= n for a factor q below 2^9
MulLe(q, d, n) ==
    LET low == q * d[2]
    IN  U32Le(<<q * d[1] + (low \div 65536), low % 65536>>, n)

\* n / d in uint32_t arithmetic for d # 0: long division over the four
\* bytes of n for a divisor below 2^23, and the largest q with q * d <= n
\* for a larger one (q is then n / d rounded down, and at most 5 below the
\* quotient of the high halves)
DivU32(n, d) ==
    IF d[1] < 128
    THEN LET dd == d[1] * 65536 + d[2]
             t3 == n[1] \div 256
             t2 == (t3 % dd) * 256 + (n[1] % 256)
             t1 == (t2 % dd) * 256 + (n[2] \div 256)
             t0 == (t1 % dd) * 256 + (n[2] % 256)
         IN  <<(t3 \div dd) * 256 + (t2 \div dd),
               (t1 \div dd) * 256 + (t0 \div dd)>>
    ELSE LET q0 == n[1] \div d[1]
             from == IF q0 > 5 THEN q0 - 5 ELSE 0
         IN  <<0, CHOOSE q \in from .. q0 :
                      MulLe(q, d, n) /\ ~MulLe(q + 1, d, n)>>

\* the outcomes of n / d: a division by zero is undefined; the UDIV
\* instruction of the Cortex-M3 yields 0, or raises a fault if the core is
\* set up to trap it
Quotients(n, d) ==
    IF d = <<0, 0>>
    THEN { [q |-> <<0, 0>>, fault |-> FALSE], [q |-> <<0, 0>>, fault |-> TRUE] }
    ELSE { [q |-> DivU32(n, d), fault |-> FALSE] }

\* the variables of the EEPROM emulation, Control.c line 188
EEVars ==
    {"magic", "ua1mV_h", "ua1mV_l", "ua1mA_h", "ua1mA_l",
     "ua2mV_h", "ua2mV_l", "ua2mA_h", "ua2mA_l", "chksum"}

\* EE_Write(var, data): the storage keeps the 16-bit value
EE_Write(ee, var, data) == [ee EXCEPT ![var] = data]

\* EE_Read(var, &data): the value kept for the variable
EE_Read(ee, var) == ee[var]

\* the calibration data after ControlInit() on an empty storage: no sample
\* taken, no reference configured, unity dividers; divz tells that the
\* latest handler divided by zero, fault that the core has trapped
NoCal ==
    [l_ADC_Value |-> [i \in 0 .. (NUM_MEASURE * 2 - 1) |-> 0],
     l_mV_Divider |-> [i \in Units |-> Unity],
     l_mA_Divider |-> [i \in Units |-> Unity],
     g_UA_Calib_mV |-> [i \in Units |-> 0],
     g_UA_Calib_mA |-> [i \in Units |-> 0],
     l_flgCalibration |-> {},
     ee |-> [x \in EEVars |-> 0],
     divz |-> FALSE, fault |-> FALSE]

\* mutant: the conversion result is divided without the shift
PowerVoltage_NoShift(c, output) ==
    LET idx == output * 2
    IN  Quotients(U32(c.l_ADC_Value[idx]), c.l_mV_Divider[output])

\* PowerVoltage(output): the outcomes of the division
PowerVoltage(c, output) ==
    LET idx == output * 2
    IN  Quotients(Shl16(c.l_ADC_Value[idx]), c.l_mV_Divider[output])

\* PowerCurrent(output): the outcomes of the division
PowerCurrent(c, output) ==
    LET idx == (output * 2) + 1
    IN  Quotients(Shl16(c.l_ADC_Value[idx]), c.l_mA_Divider[output])

\* CalibrateVoltage(output, referenceValue_mV): the calibration data for
\* each outcome of the division
CalibrateVoltage(c, output, referenceValue_mV) ==
    LET idx == output * 2
    IN  { [c EXCEPT !.l_mV_Divider[output] = IF o.fault THEN @ ELSE o.q,
                    !.divz = @ \/ referenceValue_mV = 0,
                    !.fault = o.fault] :
          o \in Quotients(Shl16(c.l_ADC_Value[idx]), U32(referenceValue_mV)) }

\* CalibrateCurrent(output, referenceValue_mA): the calibration data for
\* each outcome of the division
CalibrateCurrent(c, output, referenceValue_mA) ==
    LET idx == (output * 2) + 1
    IN  { [c EXCEPT !.l_mA_Divider[output] = IF o.fault THEN @ ELSE o.q,
                    !.divz = @ \/ referenceValue_mA = 0,
                    !.fault = o.fault] :
          o \in Quotients(Shl16(c.l_ADC_Value[idx]), U32(referenceValue_mA)) }

\* the 16-bit sum over the magic word and the eight halves of the storage
EESum(ee) ==
    (EE_Read(ee, "magic")
     + EE_Read(ee, "ua1mV_h") + EE_Read(ee, "ua1mV_l")
     + EE_Read(ee, "ua1mA_h") + EE_Read(ee, "ua1mA_l")
     + EE_Read(ee, "ua2mV_h") + EE_Read(ee, "ua2mV_l")
     + EE_Read(ee, "ua2mA_h") + EE_Read(ee, "ua2mA_l")) % 65536

\* mutant: the checksum of the block is not compared
ReadCalibrationData_NoSum(s, c) ==
    LET s1 == Log(s, "ReadCalibrationData", <<>>)
        ee == c.ee
    IN  IF EE_Read(ee, "magic") = MAGIC_ID
        THEN [s |-> s1,
              c |-> [c EXCEPT
                       !.l_mV_Divider =
                           [i \in Units |->
                               IF i = 0
                               THEN <<EE_Read(ee, "ua1mV_h"), EE_Read(ee, "ua1mV_l")>>
                               ELSE <<EE_Read(ee, "ua2mV_h"), EE_Read(ee, "ua2mV_l")>>],
                       !.l_mA_Divider =
                           [i \in Units |->
                               IF i = 0
                               THEN <<EE_Read(ee, "ua1mA_h"), EE_Read(ee, "ua1mA_l")>>
                               ELSE <<EE_Read(ee, "ua2mA_h"), EE_Read(ee, "ua2mA_l")>>]]]
        ELSE [s |-> Log(s1, "CalibrationDefaults", <<>>),
              c |-> [c EXCEPT !.l_mV_Divider = [i \in Units |-> Unity],
                              !.l_mA_Divider = [i \in Units |-> Unity]]]

\* ReadCalibrationData(): the program state s with its log lines and the
\* calibration data c with the dividers read; (uint32_t)(data_h << 16)
\* keeps the low 16 bits of data_h in the high half
ReadCalibrationData(s, c) ==
    LET s1 == Log(s, "ReadCalibrationData", <<>>)
        ee == c.ee
        read == [c EXCEPT
                   !.l_mV_Divider =
                       [i \in Units |->
                           IF i = 0
                           THEN <<EE_Read(ee, "ua1mV_h"), EE_Read(ee, "ua1mV_l")>>
                           ELSE <<EE_Read(ee, "ua2mV_h"), EE_Read(ee, "ua2mV_l")>>],
                   !.l_mA_Divider =
                       [i \in Units |->
                           IF i = 0
                           THEN <<EE_Read(ee, "ua1mA_h"), EE_Read(ee, "ua1mA_l")>>
                           ELSE <<EE_Read(ee, "ua2mA_h"), EE_Read(ee, "ua2mA_l")>>]]
    IN  IF EE_Read(ee, "magic") = MAGIC_ID /\ EESum(ee) = EE_Read(ee, "chksum")
        THEN [s |-> s1, c |-> read]
        ELSE [s |-> Log(s1, "CalibrationDefaults", <<>>),
              c |-> [c EXCEPT !.l_mV_Divider = [i \in Units |-> Unity],
                              !.l_mA_Divider = [i \in Units |-> Unity]]]

\* mutant: the low half of the UA1 voltage divider is stored in both halves
WriteCalibrationData_LowTwice(s, c) ==
    LET e1 == EE_Write(c.ee, "magic", MAGIC_ID)
        e2 == EE_Write(e1, "ua1mV_h", c.l_mV_Divider[0][2])
        e3 == EE_Write(e2, "ua1mV_l", c.l_mV_Divider[0][2])
        e4 == EE_Write(e3, "ua1mA_h", c.l_mA_Divider[0][1])
        e5 == EE_Write(e4, "ua1mA_l", c.l_mA_Divider[0][2])
        e6 == EE_Write(e5, "ua2mV_h", c.l_mV_Divider[1][1])
        e7 == EE_Write(e6, "ua2mV_l", c.l_mV_Divider[1][2])
        e8 == EE_Write(e7, "ua2mA_h", c.l_mA_Divider[1][1])
        e9 == EE_Write(e8, "ua2mA_l", c.l_mA_Divider[1][2])
    IN  [s |-> Log(s, "WriteCalibrationData", <<>>),
         c |-> [c EXCEPT !.ee = EE_Write(e9, "chksum", EESum(e9))]]

\* WriteCalibrationData(): the magic word, the halves of the four dividers
\* and the 16-bit sum of the nine words, written with interrupts disabled
WriteCalibrationData(s, c) ==
    LET e1 == EE_Write(c.ee, "magic", MAGIC_ID)
        e2 == EE_Write(e1, "ua1mV_h", c.l_mV_Divider[0][1])
        e3 == EE_Write(e2, "ua1mV_l", c.l_mV_Divider[0][2])
        e4 == EE_Write(e3, "ua1mA_h", c.l_mA_Divider[0][1])
        e5 == EE_Write(e4, "ua1mA_l", c.l_mA_Divider[0][2])
        e6 == EE_Write(e5, "ua2mV_h", c.l_mV_Divider[1][1])
        e7 == EE_Write(e6, "ua2mV_l", c.l_mV_Divider[1][2])
        e8 == EE_Write(e7, "ua2mA_h", c.l_mA_Divider[1][1])
        e9 == EE_Write(e8, "ua2mA_l", c.l_mA_Divider[1][2])
    IN  [s |-> Log(s, "WriteCalibrationData", <<>>),
         c |-> [c EXCEPT !.ee = EE_Write(e9, "chksum", EESum(e9))]]

(********************************* actions *********************************)
\* no alarm time is set
NoTimes == [a \in PowerAlarms |-> <<>>]

\* no line has been parsed
NoLine == [name |-> "", value |-> <<>>]

\* no Power Times menu has been entered
NoLine12 == [text |-> "", out |-> NONE, idx |-> 0, val |-> NONE]

NoLcd == [l1 |-> NoLine12, l2 |-> NoLine12]

NoMenu ==
    /\ l_PwrOut = 0
    /\ l_flgOverview = FALSE
    /\ l_MenuIdx = 0
    /\ MaxIdx = 0
    /\ lcd = NoLcd

\* the clock runs on standard time and no configuration file has set a time
NoTime ==
    /\ g_isdst = FALSE
    /\ alarmTime = NoTimes
    /\ cfgLine = NoLine

\* what has happened to the reader so far: the payload of the latest
\* validated frame if RFID_Enable() has not been called and TransponderAbsent
\* has not fired since (last), the same if also the clear key has not been
\* pressed since (kept), whether RFID_Enable() has been called and no frame
\* has been validated since (run), the payloads validated since the latest
\* call of RFID_Enable() (seen), whether the byte just received completed
\* the first frame of a run and left the stored ID as it was (stale),
\* whether TransponderAbsent has fired since the latest call of
\* RFID_Disable() or RFID_Enable() (absent), whether the latest call of
\* RFID_Disable() found the reader powered, absence detection on and an ID
\* stored (defer), the RTC ticks since the latest validated frame while the
\* absence timeout has not passed, else -1 (age), and whether the clear key
\* has been pressed in that time (key)
NoHist ==
    [last |-> <<>>, kept |-> <<>>, run |-> FALSE, seen |-> {},
     stale |-> FALSE, absent |-> FALSE, defer |-> FALSE,
     age |-> -1, key |-> FALSE]

\* the payload of the frame that the next byte of the stream completes, the
\* decoder having taken all bytes of the frame before it; <<>> if none
Validated ==
    IF l_State = FrameLen(l_pRFID_Cfg.RFID_Type) - 1
    THEN FrameAt(rx, l_pRFID_Cfg.RFID_Type, rxPos + 1)
    ELSE <<>>

Step(name, rail, en, s) ==
    /\ Set(s)
    /\ op' = [name |-> name, rail |-> rail, en |-> en]
    /\ rep' = (name = "Alarm" /\ op = [name |-> name, rail |-> rail, en |-> en])
    /\ pfCut' = IF s.pfDone /\ ~pfDone
                THEN { r \in Rails : sTimer[l_hdlPwrInterval(r)] > 0 }
                ELSE IF name \in {"Alarm", "MenuPowerOutput"}
                THEN pfCut \ {rail}
                ELSE pfCut
    /\ UNCHANGED <<rx, rxPos, hist, cal, timeVars, menuVars>>

Irq(name, rail, en, s) ==
    /\ Step(name, rail, en, s)
    /\ UNCHANGED <<pc, mlEnable>>

Init ==
    /\ \E c \in Configs : Is([LoadConfiguration(Boot, c) EXCEPT !.log = <<>>])
    /\ pc = "loop"
    /\ mlEnable = FALSE
    /\ rx = <<>>
    /\ rxPos = 0
    /\ op = [name |-> "Init", rail |-> NONE, en |-> FALSE]
    /\ rep = FALSE
    /\ pfCut = {}
    /\ hist = NoHist
    /\ NoTime
    /\ NoMenu
    /\ cal = NoCal

\* RTC interrupt: an enabled alarm time has been reached
Alarm(a) ==
    /\ a \in alarmEnabled
    /\ Irq("Alarm", AlarmOutput(a), AlarmState(a), AlarmPowerControl(Cur, a))

\* RTC interrupt: one second has passed
Tick == Irq("Tick", NONE, FALSE, TickFrom(Cur, 0))

\* key interrupt: MenuPowerOutput(KEYCODE_SET_RELEASE, output)
MenuPowerOutput(output) ==
    Irq("MenuPowerOutput", output, ~IsPowerOutputOn(Cur, output),
        PowerOutput(Cur, output, ~IsPowerOutputOn(Cur, output)))

\* power-fail interrupt: the condition is asserted
PowerFailAssert ==
    /\ ~l_flgPowerFail
    /\ Irq("PowerFail", NONE, TRUE, [Cur EXCEPT !.l_flgPowerFail = TRUE])

\* power-fail interrupt: the condition clears
PowerFailClear ==
    /\ l_flgPowerFail
    /\ Irq("PowerFail", NONE, FALSE,
           [Cur EXCEPT !.l_flgPowerFail = FALSE, !.pfDone = FALSE])

\* service loop: if (! PowerFailCheck())
MainPowerFailCheck ==
    /\ pc = "loop"
    /\ Step("PowerFailCheck", NONE, FALSE, PowerFailCheck(Cur))
    /\ pc' = IF l_flgPowerFail THEN "loop" ELSE "check"
    /\ mlEnable' = FALSE

\* service loop: RFID_Check() up to the PowerOutput() call it makes, or to
\* its end if it makes none
MainRFIDCheck ==
    /\ pc = "check"
    /\ LET r == RFID_CheckPower(Cur)
       IN  /\ Step("RFID_Check", NONE, FALSE,
                   IF r.pc = "pwr" THEN r.s ELSE RFID_CheckNewID(r.s))
           /\ pc' = r.pc
           /\ mlEnable' = r.en

\* service loop: RFID_Check() from the PowerOutput() call to its end
MainRFIDSwitch ==
    /\ pc = "pwr"
    /\ Step("RFID_Check", l_pRFID_Cfg.RFID_PwrOut, mlEnable,
            RFID_CheckNewID(RFID_CheckSwitch(Cur, mlEnable)))
    /\ pc' = "loop"
    /\ mlEnable' = FALSE

Next ==
    \/ \E a \in PowerAlarms : Alarm(a)
    \/ Tick
    \/ \E r \in Rails : MenuPowerOutput(r)
    \/ PowerFailAssert
    \/ PowerFailClear
    \/ MainPowerFailCheck
    \/ MainRFIDCheck
    \/ MainRFIDSwitch

Spec == Init /\ [][Next]_vars


(******************* loading a configuration file (main.c) *****************)
\* values of <output>_INTERVAL, <output>_ON_DURATION and SCAN_DURATION
CfgIntervals == {0, 9, 10, 12}
CfgDurations == {0, 4, 5, 6}
CfgScans == {51, 1000, 2201}

\* the configuration files of the verification
CfgInputs ==
    { [interval |-> Tup(i[1], i[2], i[3]), duration |-> Tup(d[1], d[2], d[3]),
       times |-> {}, type |-> RFID_TYPE_NONE, power |-> PWR_OUT_NONE,
       absent |-> 0, scan |-> sc, followUp |-> CfgFollowUp] :
      i \in CfgIntervals \X CfgIntervals \X CfgIntervals,
      d \in CfgDurations \X CfgDurations \X CfgDurations,
      sc \in CfgScans }

\* a device in which UA1 is two seconds into its power cycle
Running ==
    TickFrom(TickFrom(
        AlarmPowerControl(
            LoadConfiguration(Boot,
                [interval |-> Tup(10, 0, 0), duration |-> Tup(5, 0, 0),
                 times |-> {PWR_OUT_UA1}, type |-> RFID_TYPE_NONE,
                 power |-> PWR_OUT_NONE, absent |-> 0,
                 scan |-> DFLT_SCAN_DURATION, followUp |-> CfgFollowUp]),
            ALARM_UA1_ON_TIME_1), 0), 0)

\* main(): ClearConfiguration() and CfgRead() have run, after power-up or
\* when an SD-Card is inserted into the running device
InitCfg ==
    /\ \E base \in {Boot, Running}, c \in CfgInputs :
          Is([CfgRead(ClearConfiguration(base), c)
                 EXCEPT !.log = <<>>, !.disp = <<>>, !.calls = <<>>])
    /\ pc = "verify"
    /\ mlEnable = FALSE
    /\ rx = <<>>
    /\ rxPos = 0
    /\ op = [name |-> "CfgRead", rail |-> NONE, en |-> FALSE]
    /\ rep = FALSE
    /\ pfCut = {}
    /\ hist = NoHist
    /\ NoTime
    /\ NoMenu
    /\ cal = NoCal

\* main(): VerifyConfiguration()
MainVerifyConfiguration ==
    /\ pc = "verify"
    /\ Step("VerifyConfiguration", NONE, FALSE, VerifyConfiguration(Cur))
    /\ pc' = "init"
    /\ mlEnable' = FALSE

NextCfg == MainVerifyConfiguration

SpecCfg == InitCfg /\ [][NextCfg]_vars

(************************** receiving frames (RFID.c) **********************)
\* a frame whose last byte is damaged
Damaged(f) ==
    [i \in 1 .. Len(f) |-> IF i = Len(f) THEN (f[i] + 1) % 256 ELSE f[i]]

\* a frame whose last byte but one is damaged
DamagedLow(f) ==
    [i \in 1 .. Len(f) |-> IF i = Len(f) - 1 THEN (f[i] + 1) % 256 ELSE f[i]]

\* the byte streams a reader of the given type sends
Streams(type) ==
    { Frame(type, p) : p \in Payloads }
    \cup { Frame(type, p) \o Damaged(Frame(type, q)) :
             p \in Payloads, q \in Payloads }
    \cup { Frame(type, p) \o DamagedLow(Frame(type, p)) : p \in Payloads }
    \cup { Frame(type, p) \o Frame(type, q) : p \in Payloads, q \in Payloads }
    \cup { Damaged(Frame(type, p)) \o Frame(type, p) : p \in Payloads }
    \cup { <<0>> \o Frame(type, p) : p \in Payloads }

\* a device whose reader has just been powered on by RFID_Check() after
\* RFID_Enable()
Scanning(type, absent) ==
    LET c == [interval |-> Tup(0, 0, 0), duration |-> Tup(0, 0, 0),
              times |-> {PWR_OUT_UA2}, type |-> type, power |-> PWR_OUT_UA2,
              absent |-> absent, scan |-> DFLT_SCAN_DURATION,
              followUp |-> CfgFollowUp]
        s1 == SwitchOutput(LoadConfiguration(Boot, c), PWR_OUT_UA2, PWR_ON)
        s2 == RFID_CheckPower(s1).s
    IN  RFID_CheckSwitch(s2, PWR_ON)

InitDec ==
    /\ \E type \in {RFID_TYPE_SR, RFID_TYPE_LR}, absent \in {0, CfgAbsent} :
          /\ Is([Scanning(type, absent)
                    EXCEPT !.log = <<>>, !.disp = <<>>, !.calls = <<>>])
          /\ rx \in Streams(type)
    /\ rxPos = 0
    /\ pc = "loop"
    /\ mlEnable = FALSE
    /\ op = [name |-> "Init", rail |-> NONE, en |-> FALSE]
    /\ rep = FALSE
    /\ pfCut = {}
    /\ hist = [NoHist EXCEPT !.run = TRUE]
    /\ NoTime
    /\ NoMenu
    /\ cal = NoCal

\* USART1_RX_IRQHandler(): the next byte of the stream is received; the
\* reader sends while its output and the UART are on
RxByte ==
    /\ uartOn
    /\ PwrOut[l_pRFID_Cfg.RFID_PwrOut]
    /\ rxPos < Len(rx)
    /\ Set(RFID_Decode(Cur, rx[rxPos + 1]))
    /\ rxPos' = rxPos + 1
    /\ op' = [name |-> "RxByte", rail |-> NONE, en |-> Validated # <<>>]
    /\ rep' = FALSE
    /\ hist' = IF Validated # <<>>
               THEN [hist EXCEPT !.last = Validated, !.kept = Validated,
                                 !.run = FALSE, !.seen = @ \cup {Validated},
                                 !.age = IF g_RFID_AbsentDetectTimeout > 0
                                         THEN 0 ELSE -1,
                                 !.key = FALSE,
                                 !.stale = /\ hist.run
                                           /\ g_Transponder # EOS
                                           /\ g_Transponder' = g_Transponder]
               ELSE [hist EXCEPT !.stale = FALSE]
    /\ UNCHANGED <<rx, pc, mlEnable, pfCut, cal, timeVars, menuVars>>

NextDec == RxByte

SpecDec == InitDec /\ [][NextDec]_vars


(******************* reader and transponder presence (RFID.c) **************)
\* the configuration files of a device with a reader on UA2, switched by the
\* ON and OFF times of UA2
ReaderConfigs ==
    { [interval |-> Tup(0, 0, 0), duration |-> Tup(0, 0, 0),
       times |-> {PWR_OUT_UA2}, type |-> type, power |-> PWR_OUT_UA2,
       absent |-> absent, scan |-> DFLT_SCAN_DURATION,
       followUp |-> CfgFollowUp] :
      type \in {RFID_TYPE_SR, RFID_TYPE_LR}, absent \in {0, CfgAbsent} }

\* the transponder in range of the reader
Bird == <<1, 35, 69, 103, 137, 171, 205, 239>>

\* the byte streams the reader sends while it is powered
ReaderStreams(type) ==
    { Frame(type, Bird) \o Frame(type, Bird) }

InitRfid ==
    /\ \E c \in ReaderConfigs :
          /\ Is([LoadConfiguration(Boot, c) EXCEPT !.log = <<>>])
          /\ rx \in ReaderStreams(c.type)
    /\ rxPos = 0
    /\ pc = "loop"
    /\ mlEnable = FALSE
    /\ op = [name |-> "Init", rail |-> NONE, en |-> FALSE]
    /\ rep = FALSE
    /\ pfCut = {}
    /\ hist = NoHist
    /\ NoTime
    /\ NoMenu
    /\ cal = NoCal

\* an interrupt handler of the reader model has run: the state is s, the
\* history h
ReaderIrq(name, rail, en, s, h) ==
    /\ Set(s)
    /\ op' = [name |-> name, rail |-> rail, en |-> en]
    /\ rep' = FALSE
    /\ hist' = h
    /\ UNCHANGED <<pc, mlEnable, rx, rxPos, pfCut, cal, timeVars, menuVars>>

\* RTC interrupt: an ON or OFF time of the reader's output has been reached
ReaderAlarm(a) ==
    /\ a \in alarmEnabled
    /\ AlarmOutput(a) = g_RFID_Power
    /\ ReaderIrq("Alarm", AlarmOutput(a), AlarmState(a),
                 AlarmPowerControl(Cur, a),
                 IF AlarmState(a) = PWR_ON
                 THEN [hist EXCEPT !.last = <<>>, !.kept = <<>>,
                                   !.run = TRUE, !.seen = {},
                                   !.absent = FALSE, !.defer = FALSE]
                 ELSE [hist EXCEPT !.absent = FALSE,
                                   !.defer = IF l_flgRFID_On
                                             THEN /\ l_flgRFID_IsOn
                                                  /\ g_RFID_AbsentDetectTimeout > 0
                                                  /\ g_Transponder # EOS
                                             ELSE @])

\* RTC interrupt: one second has passed
ReaderTick ==
    ReaderIrq("Tick", NONE, sTimer[HDL_ABSENT] = 1, TickFrom(Cur, 0),
              IF sTimer[HDL_ABSENT] = 1
              THEN [hist EXCEPT !.last = <<>>, !.kept = <<>>, !.absent = TRUE,
                                !.age = -1, !.key = FALSE]
              ELSE IF hist.age < 0 THEN hist
              ELSE IF hist.age + 1 >= g_RFID_AbsentDetectTimeout
              THEN [hist EXCEPT !.age = -1, !.key = FALSE]
              ELSE [hist EXCEPT !.age = @ + 1])

\* key interrupt: MenuClearTransp(KEYCODE_DOWN_ASSERT)
MenuClearTransp ==
    ReaderIrq("MenuClearTransp", NONE, FALSE,
              DisplayUpdate([Cur EXCEPT !.g_Transponder = EOS],
                            "UPD_TRANSPONDER"),
              [hist EXCEPT !.kept = <<>>, !.key = hist.age >= 0])

NextRfid ==
    \/ \E a \in PowerAlarms : ReaderAlarm(a)
    \/ ReaderTick
    \/ MenuClearTransp
    \/ RxByte
    \/ MainPowerFailCheck
    \/ MainRFIDCheck
    \/ MainRFIDSwitch

SpecRfid == InitRfid /\ [][NextRfid]_vars

(********************* calibration (DM_PowerOutput.c) **********************)
\* the reference values <<UAx_CALIBRATE_mV, UAx_CALIBRATE_mA>> of the
\* configuration files
CalRefs == { <<0, 0>>, <<5000, 0>>, <<5000, 5000>>, <<1, 1>> }

\* the conversions <<index, value>> the ADC delivers
AdcInputs == { <<0, ADC_MAX>>, <<1, 1>>, <<2, 40000>>, <<3, 40000>> }

\* the keys the calibration menu receives
CalKeys == {"KEYCODE_MENU_ENTER", "KEYCODE_MENU_EXIT", "KEYCODE_SET_RELEASE"}

\* the calibration data with the reference values r of a configuration file
\* and the conversion result x of the voltage channel of UA1
CalData(r, x) ==
    [NoCal EXCEPT !.g_UA_Calib_mV = [i \in Units |-> r[1]],
                  !.g_UA_Calib_mA = [i \in Units |-> r[2]],
                  !.l_ADC_Value[0] = x]

InitCal ==
    /\ Is(Boot)
    /\ \E r \in CalRefs : cal = CalData(r, 0)
    /\ pc = "loop"
    /\ mlEnable = FALSE
    /\ rx = <<>>
    /\ rxPos = 0
    /\ op = [name |-> "Init", rail |-> NONE, en |-> FALSE]
    /\ rep = FALSE
    /\ pfCut = {}
    /\ hist = NoHist
    /\ NoTime
    /\ NoMenu

\* an interrupt handler of the calibration model has run: the program
\* state is s, the calibration data c
CalIrq(name, rail, en, s, c) ==
    /\ Set(s)
    /\ op' = [name |-> name, rail |-> rail, en |-> en]
    /\ rep' = FALSE
    /\ cal' = c
    /\ UNCHANGED <<pc, mlEnable, rx, rxPos, pfCut, hist, timeVars, menuVars>>

\* ADC0_IRQHandler(): a conversion of the scan is complete
ADC0_IRQHandler(chan, value) ==
    /\ ~cal.fault
    /\ CalIrq("ADC0_IRQHandler", NONE, FALSE, Cur,
              [cal EXCEPT !.l_ADC_Value[chan] = value, !.divz = FALSE])

\* key interrupt: MenuCalibrateOutput(KEYCODE_SET_RELEASE, arg)
MenuCalibrateOutput(arg) ==
    LET idx == arg - PWR_OUT_UA1
        c0 == [cal EXCEPT !.divz = FALSE]
    IN  /\ ~cal.fault
        /\ IF cal.g_UA_Calib_mV[idx] = 0
           THEN CalIrq("MenuCalibrateOutput", arg, FALSE, Cur, c0)
           ELSE \E c1 \in CalibrateVoltage(c0, arg, cal.g_UA_Calib_mV[idx]) :
                  IF c1.fault
                  THEN CalIrq("MenuCalibrateOutput", arg, TRUE, Cur, c1)
                  ELSE \E c2 \in CalibrateCurrent(c1, arg,
                                                  cal.g_UA_Calib_mA[idx]) :
                         CalIrq("MenuCalibrateOutput", arg, TRUE, Cur,
                                IF c2.fault THEN c2
                                ELSE [c2 EXCEPT !.l_flgCalibration =
                                                    @ \cup {idx}])

\* key interrupt: MenuCalibration(keycode, arg)
MenuCalibration(keycode) ==
    LET c0 == [cal EXCEPT !.divz = FALSE]
        wr == WriteCalibrationData(Cur, c0)
    IN  /\ ~cal.fault
        /\ IF keycode = "KEYCODE_MENU_ENTER"
           THEN IF cal.l_flgCalibration # {}
                THEN CalIrq("MenuCalibration", NONE, TRUE, wr.s, wr.c)
                ELSE CalIrq("MenuCalibration", NONE, FALSE, Cur, c0)
           ELSE IF keycode = "KEYCODE_MENU_EXIT"
           THEN CalIrq("MenuCalibrationExit", NONE, FALSE, Cur,
                       [c0 EXCEPT !.l_flgCalibration = {}])
           ELSE CalIrq("MenuCalibration", NONE, FALSE, Cur, c0)

\* reset: ControlInit() reads the dividers from the storage; the reference
\* values are those of the configuration file
ControlInit ==
    LET rd == ReadCalibrationData(Boot,
                  [NoCal EXCEPT !.ee = cal.ee,
                                !.g_UA_Calib_mV = cal.g_UA_Calib_mV,
                                !.g_UA_Calib_mA = cal.g_UA_Calib_mA])
    IN  CalIrq("ControlInit", NONE, Len(rd.s.log) = 1, rd.s, rd.c)

NextCal ==
    \/ \E i \in AdcInputs : ADC0_IRQHandler(i[1], i[2])
    \/ \E arg \in {PWR_OUT_UA1, PWR_OUT_UA2} : MenuCalibrateOutput(arg)
    \/ \E k \in CalKeys : MenuCalibration(k)
    \/ ControlInit

SpecCal == InitCal /\ [][NextCal]_vars

(*************** calibration over all conversion results *******************)
InitAcc ==
    /\ Is(Boot)
    /\ \E x \in 0 .. ADC_MAX : cal = CalData(<<5000, 5000>>, x)
    /\ pc = "loop"
    /\ mlEnable = FALSE
    /\ rx = <<>>
    /\ rxPos = 0
    /\ op = [name |-> "Init", rail |-> NONE, en |-> FALSE]
    /\ rep = FALSE
    /\ pfCut = {}
    /\ hist = NoHist
    /\ NoTime
    /\ NoMenu

NextAcc == MenuCalibrateOutput(PWR_OUT_UA1)

SpecAcc == InitAcc /\ [][NextAcc]_vars

(******************* a damaged block of calibration data *******************)
\* the dividers <<mV of UA1, mA of UA1, mV of UA2, mA of UA2>> of the saved
\* calibrations
SavedDividers ==
    { <<Unity, Unity, Unity, Unity>>,
      <<<<65535, 0>>, <<0, 13>>, <<8, 0>>, <<0, 0>>>>,
      <<<<13, 7012>>, <<65535, 65535>>, <<0, 255>>, <<255, 65280>>>> }

\* the calibration data with the dividers d, saved by WriteCalibrationData()
SavedCal(d) ==
    WriteCalibrationData(Boot,
        [NoCal EXCEPT !.l_mV_Divider = [i \in Units |-> IF i = 0 THEN d[1] ELSE d[3]],
                      !.l_mA_Divider = [i \in Units |-> IF i = 0 THEN d[2] ELSE d[4]]]).c

InitCor ==
    /\ Is(Boot)
    /\ \E d \in SavedDividers : cal = SavedCal(d)
    /\ pc = "loop"
    /\ mlEnable = FALSE
    /\ rx = <<>>
    /\ rxPos = 0
    /\ op = [name |-> "Init", rail |-> NONE, en |-> FALSE]
    /\ rep = FALSE
    /\ pfCut = {}
    /\ hist = NoHist
    /\ NoTime
    /\ NoMenu

\* the storage loses one byte of the saved block: the high or the low byte
\* of the word var becomes value
CorruptByte(var, high, value) ==
    LET old == EE_Read(cal.ee, var)
        new == IF high THEN (value * 256) + (old % 256)
               ELSE ((old \div 256) * 256) + value
    IN  /\ op.name = "Init"
        /\ new # old
        /\ CalIrq("CorruptByte", NONE, high, Cur,
                  [cal EXCEPT !.ee = EE_Write(@, var, new)])

NextCor ==
    \/ \E var \in EEVars, high \in BOOLEAN, value \in 0 .. 255 :
          CorruptByte(var, high, value)
    \/ ControlInit

SpecCor == InitCor /\ [][NextCor]_vars

(****************** parsing the alarm times (CfgData.c) ********************)
\* the names of l_CfgVarList, in the order of the list; the entry at index
\* i (counted from 0) of the first 30 is of type CFG_VAR_TYPE_TIME
l_CfgVarList ==
    << "UA1_ON_TIME_1", "UA1_ON_TIME_2", "UA1_ON_TIME_3", "UA1_ON_TIME_4",
       "UA1_ON_TIME_5", "UA2_ON_TIME_1", "UA2_ON_TIME_2", "UA2_ON_TIME_3",
       "UA2_ON_TIME_4", "UA2_ON_TIME_5", "BATT_ON_TIME_1", "BATT_ON_TIME_2",
       "BATT_ON_TIME_3", "BATT_ON_TIME_4", "BATT_ON_TIME_5",
       "UA1_OFF_TIME_1", "UA1_OFF_TIME_2", "UA1_OFF_TIME_3",
       "UA1_OFF_TIME_4", "UA1_OFF_TIME_5", "UA2_OFF_TIME_1",
       "UA2_OFF_TIME_2", "UA2_OFF_TIME_3", "UA2_OFF_TIME_4",
       "UA2_OFF_TIME_5", "BATT_OFF_TIME_1", "BATT_OFF_TIME_2",
       "BATT_OFF_TIME_3", "BATT_OFF_TIME_4", "BATT_OFF_TIME_5",
       "UA1_INTERVAL", "UA1_ON_DURATION", "UA2_INTERVAL", "UA2_ON_DURATION",
       "BATT_INTERVAL", "BATT_ON_DURATION", "RFID_TYPE", "RFID_POWER",
       "RFID_ABSENT_DETECT_TIMEOUT", "SCAN_DURATION",
       "UA1_MEASURE_FOLLOW_UP_TIME", "UA1_MEASURE_U_MIN_DIFF",
       "UA1_MEASURE_I_MIN_DIFF", "UA2_MEASURE_FOLLOW_UP_TIME",
       "UA2_MEASURE_U_MIN_DIFF", "UA2_MEASURE_I_MIN_DIFF",
       "BATT_MEASURE_FOLLOW_UP_TIME", "BATT_MEASURE_U_MIN_DIFF",
       "BATT_MEASURE_I_MIN_DIFF", "UA1_CALIBRATE_mV", "UA1_CALIBRATE_mA",
       "UA2_CALIBRATE_mV", "UA2_CALIBRATE_mA" >>

\* CfgParse(): the index at which the search of the list ends; the index of
\* the terminating entry if the name is not in the list
VarIdx(name) ==
    IF \E i \in 1 .. Len(l_CfgVarList) : l_CfgVarList[i] = name
    THEN (CHOOSE i \in 1 .. Len(l_CfgVarList) : l_CfgVarList[i] = name) - 1
    ELSE Len(l_CfgVarList)

\* the type of the entry is CFG_VAR_TYPE_TIME
IsTimeVar(varIdx) == varIdx <= LAST_POWER_ALARM - ALARM_UA1_ON_TIME_1

\* the characters '0' to '9'
DigitChars == <<"0", "1", "2", "3", "4", "5", "6", "7", "8", "9">>

\* isdigit()
isdigit(ch) == \E i \in 1 .. Len(DigitChars) : DigitChars[i] = ch

\* ch - '0' for a digit
DigitVal(ch) == (CHOOSE i \in 1 .. Len(DigitChars) : DigitChars[i] = ch) - 1

\* pStr[i] for the text of a value: the character at offset i, the
\* terminator EOS behind the last one
CharAt(value, i) == IF i < Len(value) THEN value[i + 1] ELSE ""

\* CfgParse(), case CFG_VAR_TYPE_TIME with an hour that passes 23 kept as
\* it is
ParseTime_NoWrap(value, isdst) ==
    IF ~isdigit(CharAt(value, 0))
    THEN [ok |-> FALSE, hour |-> 0, minute |-> 0]
    ELSE LET two == isdigit(CharAt(value, 1))
             h1 == DigitVal(CharAt(value, 0))
             hour == IF two THEN (h1 * 10) + DigitVal(CharAt(value, 1))
                     ELSE h1
             p == IF two THEN 2 ELSE 1
         IN  IF \/ CharAt(value, p) # ":"
                \/ ~isdigit(CharAt(value, p + 1))
                \/ ~isdigit(CharAt(value, p + 2))
             THEN [ok |-> FALSE, hour |-> 0, minute |-> 0]
             ELSE [ok |-> TRUE,
                   hour |-> IF isdst THEN hour + 1 ELSE hour,
                   minute |-> (DigitVal(CharAt(value, p + 1)) * 10)
                              + DigitVal(CharAt(value, p + 2))]

\* CfgParse(), case CFG_VAR_TYPE_TIME: the hour and minute taken from the
\* text of the value, one hour added while daylight-saving time is valid;
\* ok is FALSE where the code logs "Invalid time" and returns
ParseTime(value, isdst) ==
    IF ~isdigit(CharAt(value, 0))
    THEN [ok |-> FALSE, hour |-> 0, minute |-> 0]
    ELSE LET two == isdigit(CharAt(value, 1))
             h1 == DigitVal(CharAt(value, 0))
             hour == IF two THEN (h1 * 10) + DigitVal(CharAt(value, 1))
                     ELSE h1
             p == IF two THEN 2 ELSE 1
         IN  IF \/ CharAt(value, p) # ":"
                \/ ~isdigit(CharAt(value, p + 1))
                \/ ~isdigit(CharAt(value, p + 2))
             THEN [ok |-> FALSE, hour |-> 0, minute |-> 0]
             ELSE [ok |-> TRUE,
                   hour |-> IF isdst
                            THEN (IF hour + 1 > 23 THEN 0 ELSE hour + 1)
                            ELSE hour,
                   minute |-> (DigitVal(CharAt(value, p + 1)) * 10)
                              + DigitVal(CharAt(value, p + 2))]

\* CfgParse(line, lineNum) for a line "<name> = <value>" that names a time
\* variable or no variable of the list: AlarmSet() stores the time of the
\* alarm, AlarmEnable() enables it
CfgParse(l) ==
    LET varIdx == VarIdx(l.name)
        alarm == ALARM_UA1_ON_TIME_1 + varIdx
        t == ParseTime(l.value, g_isdst)
    IN  /\ varIdx = Len(l_CfgVarList) \/ IsTimeVar(varIdx)
        /\ IF varIdx = Len(l_CfgVarList)
           THEN /\ Set(Log(Cur, "LogError", <<NONE, "Unknown Variable">>))
                /\ alarmTime' = alarmTime
                /\ op' = [name |-> "CfgParse", rail |-> NONE, en |-> FALSE]
           ELSE IF ~t.ok
           THEN /\ Set(Log(Cur, "LogError", <<alarm, "Invalid time">>))
                /\ alarmTime' = alarmTime
                /\ op' = [name |-> "CfgParse", rail |-> alarm, en |-> FALSE]
           ELSE /\ Set([Cur EXCEPT !.alarmEnabled = @ \cup {alarm}])
                /\ alarmTime' = [alarmTime EXCEPT
                                    ![alarm] = <<t.hour, t.minute>>]
                /\ op' = [name |-> "CfgParse", rail |-> alarm, en |-> TRUE]
        /\ cfgLine' = l
        /\ rep' = FALSE
        /\ UNCHANGED <<g_isdst, pc, mlEnable, rx, rxPos, pfCut, hist, cal,
                       menuVars>>

\* the text of the time h:m, the hour written with two digits or, below 10
\* and if two is FALSE, with one
TimeText(h, m, two) ==
    (IF two \/ h > 9
     THEN <<DigitChars[(h \div 10) + 1], DigitChars[(h % 10) + 1]>>
     ELSE <<DigitChars[h + 1]>>)
    \o <<":", DigitChars[(m \div 10) + 1], DigitChars[(m % 10) + 1]>>

\* the hours and minutes of the times of the verification
DstHours == 0 .. 23
DstMinutes == {0, 59}

\* texts that are no time
NoTimeTexts ==
    { <<>>, <<":", "3", "0">>, <<"7">>, <<"7", ":">>, <<"7", ":", "3">>,
      <<"7", ":", "3", "x">>, <<"1", "2", "3", ":", "0", "0">>,
      <<"x", "7", ":", "3", "0">>, <<"7", ".", "3", "0">> }

\* the lines of the verification: every time of the day for UA1_ON_TIME_1,
\* two times for BATT_OFF_TIME_5, texts that are no time, a name that is
\* not in the list
DstLines ==
    { [name |-> "UA1_ON_TIME_1", value |-> TimeText(h, m, two)] :
      h \in DstHours, m \in DstMinutes, two \in BOOLEAN }
    \cup { [name |-> "BATT_OFF_TIME_5", value |-> txt] :
           txt \in { TimeText(23, 59, TRUE), TimeText(7, 0, FALSE) } }
    \cup { [name |-> "UA1_ON_TIME_1", value |-> txt] : txt \in NoTimeTexts }
    \cup { [name |-> "UA3_ON_TIME_1", value |-> TimeText(12, 0, TRUE)] }

\* main(): ClearConfiguration() has run and CfgRead() is about to parse the
\* lines of the file; the clock runs on standard or daylight-saving time
InitDst ==
    /\ Is(ClearConfiguration(Boot))
    /\ pc = "loop"
    /\ mlEnable = FALSE
    /\ rx = <<>>
    /\ rxPos = 0
    /\ op = [name |-> "Init", rail |-> NONE, en |-> FALSE]
    /\ rep = FALSE
    /\ pfCut = {}
    /\ hist = NoHist
    /\ cal = NoCal
    /\ NoMenu
    /\ g_isdst \in BOOLEAN
    /\ alarmTime = NoTimes
    /\ cfgLine = NoLine

NextDst == \E l \in DstLines : CfgParse(l)

SpecDst == InitDst /\ [][NextDst]_vars

(************* follow-up measurement with a longer follow-up time **********)
\* the follow-up time of the verification, in seconds
FolFollowUp == 2

\* a configuration file with a Short Range reader on UA2, no power cycles
\* and <output>_MEASURE_FOLLOW_UP_TIME = FolFollowUp
FolConfig ==
    [interval |-> Tup(0, 0, 0), duration |-> Tup(0, 0, 0),
     times |-> {PWR_OUT_UA1, PWR_OUT_UA2},
     type |-> RFID_TYPE_SR, power |-> PWR_OUT_UA2, absent |-> 0,
     scan |-> DFLT_SCAN_DURATION, followUp |-> FolFollowUp]

\* main(): the configuration file has been loaded
InitFol ==
    /\ Is([LoadConfiguration(Boot, FolConfig) EXCEPT !.log = <<>>])
    /\ pc = "loop"
    /\ mlEnable = FALSE
    /\ rx = <<>>
    /\ rxPos = 0
    /\ op = [name |-> "Init", rail |-> NONE, en |-> FALSE]
    /\ rep = FALSE
    /\ pfCut = {}
    /\ hist = NoHist
    /\ NoTime
    /\ NoMenu
    /\ cal = NoCal

SpecFol == InitFol /\ [][Next]_vars

(********************* measurement logging (Control.c) *********************)
\* a + n in uint32_t arithmetic for n below 2^16
AddU32(a, n) ==
    LET low == a[2] + n
    IN  <<(a[1] + (low \div 65536)) % 65536, low % 65536>>

\* a - b in uint32_t arithmetic for b <= a
SubU32(a, b) ==
    IF a[2] >= b[2] THEN <<a[1] - b[1], a[2] - b[2]>>
    ELSE <<a[1] - b[1] - 1, (a[2] + 65536) - b[2]>>

\* Control(), lines 580-588: the difference of a value to the previous one
AbsDiff(value, prev) ==
    IF ~U32Le(value, prev) THEN SubU32(value, prev) ELSE SubU32(prev, value)

\* mutant: the ADC scan is never stopped
ControlADC_NoStop(s) ==
    IF s.l_flgADC_On /\ ~s.l_flgADC_IsOn
    THEN [Log(s, "ADC", <<1>>) EXCEPT !.l_flgADC_IsOn = TRUE]
    ELSE s

\* Control(), lines 534-565: the ADC is started or stopped as requested
ControlADC(s) ==
    IF s.l_flgADC_On
    THEN IF ~s.l_flgADC_IsOn
         THEN [Log(s, "ADC", <<1>>) EXCEPT !.l_flgADC_IsOn = TRUE]
         ELSE s
    ELSE IF s.l_flgADC_IsOn
    THEN Log([s EXCEPT !.l_flgADC_IsOn = FALSE], "ADC", <<0>>)
    ELSE s

\* mutant: a difference equal to the minimum is not logged
ControlLog_Above(r, m, ov, oi) ==
    IF ov.fault \/ oi.fault
    THEN [s |-> r.s, c |-> [r.c EXCEPT !.fault = TRUE, !.divz = TRUE]]
    ELSE LET value_mV == AddU32(ov.q, 50)
             value_mA == oi.q
             diff_mV == AbsDiff(value_mV, r.s.l_prev_value_mV[m])
             diff_mA == AbsDiff(value_mA, r.s.l_prev_value_mA[m])
             logU == ~U32Le(diff_mV, U32(r.s.U_MinDiff[m]))
             logI == ~U32Le(diff_mA, U32(r.s.I_MinDiff[m]))
             s1 == [r.s EXCEPT
                      !.l_prev_value_mV[m] = IF logU THEN value_mV ELSE @,
                      !.l_prev_value_mA[m] = IF logI THEN value_mA ELSE @]
             s2 == IF logU \/ logI
                   THEN [Log(s1, "UA", <<m, value_mV, value_mA>>)
                            EXCEPT !.flgLogBATT = TRUE]
                   ELSE s1
         IN  [s |-> s2,
              c |-> [r.c EXCEPT !.divz = @ \/ r.c.l_mV_Divider[m] = <<0, 0>>
                                          \/ r.c.l_mA_Divider[m] = <<0, 0>>]]

\* Control(), lines 577-610, for the outcomes ov and oi of the divisions in
\* PowerVoltage() and PowerCurrent(): the values of the unit m are compared
\* with the previous ones and logged
ControlLog(r, m, ov, oi) ==
    IF ov.fault \/ oi.fault
    THEN [s |-> r.s, c |-> [r.c EXCEPT !.fault = TRUE, !.divz = TRUE]]
    ELSE LET value_mV == AddU32(ov.q, 50)
             value_mA == oi.q
             diff_mV == AbsDiff(value_mV, r.s.l_prev_value_mV[m])
             diff_mA == AbsDiff(value_mA, r.s.l_prev_value_mA[m])
             logU == U32Le(U32(r.s.U_MinDiff[m]), diff_mV)
             logI == U32Le(U32(r.s.I_MinDiff[m]), diff_mA)
             s1 == [r.s EXCEPT
                      !.l_prev_value_mV[m] = IF logU THEN value_mV ELSE @,
                      !.l_prev_value_mA[m] = IF logI THEN value_mA ELSE @]
             s2 == IF logU \/ logI
                   THEN [Log(s1, "UA", <<m, value_mV, value_mA>>)
                            EXCEPT !.flgLogBATT = TRUE]
                   ELSE s1
         IN  [s |-> s2,
              c |-> [r.c EXCEPT !.divz = @ \/ r.c.l_mV_Divider[m] = <<0, 0>>
                                          \/ r.c.l_mA_Divider[m] = <<0, 0>>]]

\* Control(), lines 572-612, for the unit m: the program states and
\* calibration data it can leave
ControlMeasure(r, m) ==
    IF r.c.fault \/ ChanU(m) \notin r.s.l_ADC_ActiveChanMask THEN {r}
    ELSE { ControlLog(r, m, ov, oi) :
           ov \in PowerVoltage(r.c, PWR_OUT_UA1 + m),
           oi \in PowerCurrent(r.c, PWR_OUT_UA1 + m) }

\* Control(), lines 619-668: the data of the battery controller is read and
\* logged if a line of UA1 or UA2 was logged since the latest reading, or
\* if BATT_INP is measured and a value has changed by the minimum
\* (battChange); delayDone is the result of msDelayIsDone()
ControlBATT(s, delayDone, battChange) ==
    IF (s.flgLogBATT \/ s.l_flgLogBATT) /\ delayDone
    THEN LET s1 == IF s.flgLogBATT \/ battChange
                   THEN Log(s, "BATT_INP_Values", <<>>)
                   ELSE s
         IN  [s1 EXCEPT !.flgLogBATT = FALSE]
    ELSE s

\* Control(): the program states and calibration data the call can leave;
\* a newly started ADC sets the delay of the battery reading to 0
Control(s, c, delayDone, battChange) ==
    LET started == s.l_flgADC_On /\ ~s.l_flgADC_IsOn
        r0 == [s |-> ControlADC(s), c |-> [c EXCEPT !.divz = FALSE]]
        after == UNION { ControlMeasure(r, 1) : r \in ControlMeasure(r0, 0) }
    IN  { IF r.c.fault THEN r
          ELSE [s |-> ControlBATT(r.s, delayDone \/ started, battChange),
                c |-> r.c] :
          r \in after }

\* service loop: Control()
MainControl(delayDone, battChange) ==
    /\ ~cal.fault
    /\ \E r \in Control(Cur, cal, delayDone, battChange) :
          CalIrq("Control", NONE, FALSE, r.s, r.c)

\* values of <output>_MEASURE_U_MIN_DIFF and <output>_MEASURE_I_MIN_DIFF
MinDiffs ==
    { <<DFLT_MEASURE_U_MIN_DIFF, DFLT_MEASURE_I_MIN_DIFF>>, <<150, 0>> }

\* conversion results: the index into l_ADC_Value and the value
MinSamples ==
    { <<0, 0>>, <<0, 25>>, <<0, 100>>, <<1, 0>>, <<1, 9>>, <<1, 10>>,
      <<2, 0>>, <<2, 300>> }

\* the calibration data of the verification: two conversion steps of the
\* voltage of UA1 make 1 mV, all other dividers are 1
MinCal == [NoCal EXCEPT !.l_mV_Divider[0] = <<0, 32768>>]

\* main(): a configuration file without power cycles and reader has been
\* loaded
InitMin ==
    /\ \E d \in MinDiffs :
          Is([LoadConfiguration(Boot, FolConfig)
                 EXCEPT !.log = <<>>,
                        !.FollowUpTime = [m \in Units |-> CfgFollowUp],
                        !.U_MinDiff = [m \in Units |-> d[1]],
                        !.I_MinDiff = [m \in Units |-> d[2]]])
    /\ pc = "loop"
    /\ mlEnable = FALSE
    /\ rx = <<>>
    /\ rxPos = 0
    /\ op = [name |-> "Init", rail |-> NONE, en |-> FALSE]
    /\ rep = FALSE
    /\ pfCut = {}
    /\ hist = NoHist
    /\ NoTime
    /\ NoMenu
    /\ cal = MinCal

NextMin ==
    \/ \E output \in {PWR_OUT_UA1, PWR_OUT_UA2} : MenuPowerOutput(output)
    \/ Tick
    \/ \E x \in MinSamples : ADC0_IRQHandler(x[1], x[2])
    \/ \E delayDone \in BOOLEAN, battChange \in BOOLEAN :
          MainControl(delayDone, battChange)

SpecMin == InitMin /\ [][NextMin]_vars

\* conversion results of the ADC while the scan is followed
AdcSamples == { <<0, 100>>, <<1, 10>> }

NextAdc ==
    \/ \E output \in {PWR_OUT_UA1, PWR_OUT_UA2} : MenuPowerOutput(output)
    \/ Tick
    \/ \E x \in AdcSamples : ADC0_IRQHandler(x[1], x[2])
    \/ \E delayDone \in BOOLEAN, battChange \in BOOLEAN :
          MainControl(delayDone, battChange)

\* main(), lines 581-662: the service loop keeps calling Control()
SpecAdc ==
    /\ InitMin
    /\ [][NextAdc]_vars
    /\ WF_vars(\E delayDone \in BOOLEAN, battChange \in BOOLEAN :
                  MainControl(delayDone, battChange))

(************** alarm times of a configuration file and alarms *************)
\* the most alarm times a configuration file of the verification sets
AttMaxTimes == 1

\* g_enum_PowerOutput[]: the name of a power output
RailName(output) ==
    IF output = PWR_OUT_UA1 THEN "UA1"
    ELSE IF output = PWR_OUT_UA2 THEN "UA2"
    ELSE "BATT"

\* the configuration variable <output>_ON_TIME_<n> or <output>_OFF_TIME_<n>
TimeName(output, on, n) ==
    RailName(output) \o (IF on THEN "_ON_TIME_" ELSE "_OFF_TIME_")
                     \o DigitChars[n + 1]

\* the lines of the verification: every time variable with the time 7:30
AttLines ==
    { [name |-> TimeName(output, on, n), value |-> TimeText(7, 30, FALSE)] :
      output \in Rails, on \in BOOLEAN, n \in 1 .. 5 }

\* main(): ClearConfiguration() has run and CfgRead() has stored the values
\* of a configuration file except its alarm times
InitAtt ==
    /\ \E c \in Configs :
          Is([CfgRead(ClearConfiguration(Boot), [c EXCEPT !.times = {}])
                 EXCEPT !.log = <<>>])
    /\ pc = "parse"
    /\ mlEnable = FALSE
    /\ rx = <<>>
    /\ rxPos = 0
    /\ op = [name |-> "CfgRead", rail |-> NONE, en |-> FALSE]
    /\ rep = FALSE
    /\ pfCut = {}
    /\ hist = NoHist
    /\ NoTime
    /\ NoMenu
    /\ cal = NoCal

\* CfgRead(): a line with an alarm time is parsed
AttParse(l) ==
    /\ pc = "parse"
    /\ Cardinality(alarmEnabled) < AttMaxTimes
    /\ CfgParse(l)

\* main(): the end of the file is reached; VerifyConfiguration() and
\* RFID_Init()
MainLoaded ==
    /\ pc = "parse"
    /\ Step("RFID_Init", NONE, FALSE, RFID_Init(VerifyConfiguration(Cur)))
    /\ pc' = "loop"
    /\ mlEnable' = FALSE

\* RTC interrupt: the time of an enabled alarm is reached
AttAlarm(a) ==
    /\ pc = "loop"
    /\ Alarm(a)

NextAtt ==
    \/ \E l \in AttLines : AttParse(l)
    \/ MainLoaded
    \/ \E a \in PowerAlarms : AttAlarm(a)

SpecAtt == InitAtt /\ [][NextAtt]_vars

(************** the service loop runs for ever (main.c) *********************)
\* main(), lines 581-662: while (1) never ends, so each step of the service
\* loop that can be taken is taken; interrupts may or may not occur
SpecLive ==
    /\ Init
    /\ [][Next]_vars
    /\ WF_vars(MainPowerFailCheck)
    /\ WF_vars(MainRFIDCheck)
    /\ WF_vars(MainRFIDSwitch)

(************* power cycles with unequal phases (Control.c) ****************)
\* <output>_INTERVAL and <output>_ON_DURATION of the cycling output
CycInterval == 11
CycDuration == 5

\* configuration files in which UA2 cycles: without a reader, and feeding a
\* Long Range reader with absence detection
CycConfigs ==
    { [interval |-> Tup(0, CycInterval, 0), duration |-> Tup(0, CycDuration, 0),
       times |-> {PWR_OUT_UA2},
       type |-> RFID_TYPE_NONE, power |-> PWR_OUT_NONE, absent |-> 0,
       scan |-> DFLT_SCAN_DURATION, followUp |-> CfgFollowUp],
      [interval |-> Tup(0, CycInterval, 0), duration |-> Tup(0, CycDuration, 0),
       times |-> {PWR_OUT_UA2},
       type |-> RFID_TYPE_LR, power |-> PWR_OUT_UA2, absent |-> CfgAbsent,
       scan |-> DFLT_SCAN_DURATION, followUp |-> CfgFollowUp] }

\* main(): the configuration file has been loaded; the reader, if any, has
\* one transponder in range
InitCyc ==
    /\ \E c \in CycConfigs :
          /\ Is([LoadConfiguration(Boot, c) EXCEPT !.log = <<>>])
          /\ rx = IF c.type = RFID_TYPE_NONE THEN <<>>
                  ELSE Frame(c.type, Bird)
    /\ rxPos = 0
    /\ pc = "loop"
    /\ mlEnable = FALSE
    /\ op = [name |-> "Init", rail |-> NONE, en |-> FALSE]
    /\ rep = FALSE
    /\ pfCut = {}
    /\ hist = NoHist
    /\ NoTime
    /\ NoMenu
    /\ cal = NoCal

NextCyc ==
    \/ \E a \in PowerAlarms : Alarm(a)
    \/ Tick
    \/ MenuPowerOutput(PWR_OUT_UA2)
    \/ PowerFailAssert
    \/ PowerFailClear
    \/ RxByte
    \/ MainPowerFailCheck
    \/ MainRFIDCheck
    \/ MainRFIDSwitch

SpecCyc == InitCyc /\ [][NextCyc]_vars

(*********** PowerOutput() of the service loop in two steps ***************)
\* service loop: RFID_Check() from the PowerOutput() call to the write of
\* the output pin and its log line
MainRFIDPin ==
    /\ pc = "pwr"
    /\ Step("RFID_Check", l_pRFID_Cfg.RFID_PwrOut, mlEnable,
            PowerOutputPin(Cur, l_pRFID_Cfg.RFID_PwrOut, mlEnable))
    /\ pc' = "meas"
    /\ mlEnable' = mlEnable

\* service loop: RFID_Check() from the measurement part of PowerOutput() to
\* its end
MainRFIDMeasure ==
    /\ pc = "meas"
    /\ Step("RFID_Check", l_pRFID_Cfg.RFID_PwrOut, mlEnable,
            RFID_CheckNewID(RFID_CheckRest(
                PowerOutputMeasure(Cur, l_pRFID_Cfg.RFID_PwrOut, mlEnable),
                mlEnable)))
    /\ pc' = "loop"
    /\ mlEnable' = FALSE

NextAtom ==
    \/ \E a \in PowerAlarms : Alarm(a)
    \/ Tick
    \/ \E r \in Rails : MenuPowerOutput(r)
    \/ PowerFailAssert
    \/ PowerFailClear
    \/ MainPowerFailCheck
    \/ MainRFIDCheck
    \/ MainRFIDPin
    \/ MainRFIDMeasure

SpecAtom == InitFol /\ [][NextAtom]_vars

(***************** two transponders in range of the reader *****************)
\* a second transponder
Bird2 == <<2, 35, 69, 103, 137, 171, 205, 239>>

\* a Long Range reader on UA2 without absence detection sends the frame of
\* one transponder and then the frame of another
InitTwo ==
    /\ \E c \in ReaderConfigs :
          /\ c.type = RFID_TYPE_LR
          /\ c.absent = 0
          /\ Is([LoadConfiguration(Boot, c) EXCEPT !.log = <<>>])
          /\ rx = Frame(c.type, Bird) \o Frame(c.type, Bird2)
    /\ rxPos = 0
    /\ pc = "loop"
    /\ mlEnable = FALSE
    /\ op = [name |-> "Init", rail |-> NONE, en |-> FALSE]
    /\ rep = FALSE
    /\ pfCut = {}
    /\ hist = NoHist
    /\ NoTime
    /\ NoMenu
    /\ cal = NoCal

SpecTwo == InitTwo /\ [][NextRfid]_vars

(**************** the configuration is read again (main.c) *****************)
\* the byte streams the reader sends in the model of a reload: one frame
RelStreams(type) == { Frame(type, Bird) }

InitRel ==
    /\ \E c \in ReaderConfigs :
          /\ Is([LoadConfiguration(Boot, c) EXCEPT !.log = <<>>])
          /\ rx \in RelStreams(c.type)
    /\ rxPos = 0
    /\ pc = "loop"
    /\ mlEnable = FALSE
    /\ op = [name |-> "Init", rail |-> NONE, en |-> FALSE]
    /\ rep = FALSE
    /\ pfCut = {}
    /\ hist = NoHist
    /\ NoTime
    /\ NoMenu
    /\ cal = NoCal

\* service loop: DiskCheck() has found a new SD-Card, the configuration file
\* c is read: ClearConfiguration(), CfgRead(), VerifyConfiguration(),
\* RFID_Init()
MainReload(c) ==
    /\ pc = "loop"
    /\ ~l_flgPowerFail
    /\ Step("Reload", NONE, FALSE, LoadConfiguration(Cur, c))
    /\ UNCHANGED <<pc, mlEnable>>

NextRel ==
    \/ NextRfid
    \/ \E c \in ReaderConfigs : MainReload(c)

SpecRel == InitRel /\ [][NextRel]_vars

(************ the decoder position over a change of RFID_TYPE **************)
\* the configurations of the model: a reader of either type on UA2, without
\* absence detection
PosConfigs == { c \in ReaderConfigs : c.absent = 0 }

\* the byte streams on the UART: frames of both formats one after the other,
\* and a damaged frame followed by a valid one
PosStreams ==
    { Frame(RFID_TYPE_SR, Bird) \o Frame(RFID_TYPE_LR, Bird),
      Frame(RFID_TYPE_LR, Bird) \o Frame(RFID_TYPE_SR, Bird),
      Damaged(Frame(RFID_TYPE_SR, Bird)) \o Frame(RFID_TYPE_SR, Bird),
      Damaged(Frame(RFID_TYPE_LR, Bird)) \o Frame(RFID_TYPE_LR, Bird) }

InitPos ==
    /\ \E c \in PosConfigs :
          Is([LoadConfiguration(Boot, c) EXCEPT !.log = <<>>])
    /\ rx \in PosStreams
    /\ rxPos = 0
    /\ pc = "loop"
    /\ mlEnable = FALSE
    /\ op = [name |-> "Init", rail |-> NONE, en |-> FALSE]
    /\ rep = FALSE
    /\ pfCut = {}
    /\ hist = NoHist
    /\ NoTime
    /\ NoMenu
    /\ cal = NoCal

NextPos ==
    \/ \E a \in PowerAlarms : ReaderAlarm(a)
    \/ RxByte
    \/ MainPowerFailCheck
    \/ MainRFIDCheck
    \/ MainRFIDSwitch
    \/ \E c \in PosConfigs : MainReload(c)

SpecPos == InitPos /\ [][NextPos]_vars

(*********************** DM_PowerTimes.c: the menus ************************)
\* the number of alarm ids of the alarm clock: the power alarms, which come
\* first, and no other
NUM_ALARM_IDS == LAST_POWER_ALARM + 1

\* conversion to uint8_t
Uint8(x) == x % 256

\* OnOffTimeRange[], indexed by the power output
OnOffTimeRange ==
    [r \in Rails |->
       IF r = PWR_OUT_UA1
       THEN [OnTimeBase |-> ALARM_UA1_ON_TIME_1,
             OnTimeCount |-> Uint8(ALARM_UA1_OFF_TIME_1 - ALARM_UA1_ON_TIME_1),
             OffTimeBase |-> ALARM_UA1_OFF_TIME_1,
             OffTimeCount |-> Uint8(ALARM_UA2_ON_TIME_1 - ALARM_UA1_OFF_TIME_1)]
       ELSE IF r = PWR_OUT_UA2
       THEN [OnTimeBase |-> ALARM_UA2_ON_TIME_1,
             OnTimeCount |-> Uint8(ALARM_UA2_OFF_TIME_1 - ALARM_UA2_ON_TIME_1),
             OffTimeBase |-> ALARM_UA2_OFF_TIME_1,
             OffTimeCount |-> Uint8(ALARM_BATT_ON_TIME_1 - ALARM_UA2_OFF_TIME_1)]
       ELSE [OnTimeBase |-> ALARM_BATT_ON_TIME_1,
             OnTimeCount |-> Uint8(ALARM_BATT_OFF_TIME_1 - ALARM_BATT_ON_TIME_1),
             OffTimeBase |-> ALARM_BATT_OFF_TIME_1,
             OffTimeCount |-> Uint8(NUM_ALARM_IDS - ALARM_BATT_OFF_TIME_1)]]

\* the statics of the module as a record
CurMenu ==
    [l_PwrOut |-> l_PwrOut, l_flgOverview |-> l_flgOverview,
     l_MenuIdx |-> l_MenuIdx, MaxIdx |-> MaxIdx]

\* MenuPowerTimes(keycode, arg): the statics and the key code returned
MenuPowerTimes(m, keycode, arg) ==
    LET m1 == [m EXCEPT !.l_PwrOut = arg]
        R == OnOffTimeRange[arg]
    IN  IF keycode = "MENU_ENTER"
        THEN [m |-> [m1 EXCEPT !.l_flgOverview = TRUE,
                               !.MaxIdx = IF R.OffTimeCount > R.OnTimeCount
                                          THEN R.OffTimeCount
                                          ELSE R.OnTimeCount],
              ret |-> keycode]
        ELSE IF keycode = "DOWN"
        THEN IF m1.l_flgOverview THEN [m |-> m1, ret |-> keycode]
             ELSE [m |-> [m1 EXCEPT !.l_MenuIdx = IF @ + 1 > m1.MaxIdx
                                                  THEN 0 ELSE @ + 1],
                   ret |-> "MENU_UPDATE"]
        ELSE IF keycode = "UP"
        THEN IF m1.l_flgOverview THEN [m |-> m1, ret |-> keycode]
             ELSE [m |-> [m1 EXCEPT !.l_MenuIdx = IF @ - 1 < 0
                                                  THEN m1.MaxIdx ELSE @ - 1],
                   ret |-> "MENU_UPDATE"]
        ELSE IF keycode = "RIGHT"
        THEN IF ~m1.l_flgOverview THEN [m |-> m1, ret |-> "NONE"]
             ELSE [m |-> [m1 EXCEPT !.l_flgOverview = FALSE, !.l_MenuIdx = 0],
                   ret |-> "MENU_UPDATE"]
        ELSE IF keycode = "LEFT"
        THEN IF m1.l_flgOverview THEN [m |-> m1, ret |-> keycode]
             ELSE [m |-> [m1 EXCEPT !.l_flgOverview = TRUE],
                   ret |-> "MENU_UPDATE"]
        ELSE [m |-> m1, ret |-> keycode]

\* AlarmIsEnabled(alarm); the answer for an id that is no alarm is oob
AlarmIsEnabled(s, alarm, oob) ==
    IF alarm \in 0 .. NUM_ALARM_IDS - 1 THEN alarm \in s.alarmEnabled
    ELSE oob = "set"

\* DispPowerTimes(UPD_ALL): the two lines written to the display
DispPowerTimes(s, m, oob) ==
    LET R == OnOffTimeRange[m.l_PwrOut]
        line(text, val) ==
            [text |-> text, out |-> m.l_PwrOut, idx |-> m.l_MenuIdx,
             val |-> val]
    IN  IF m.l_flgOverview
        THEN LET ON_Cnt ==
                     Cardinality({ alarm \in R.OnTimeBase ..
                                        R.OnTimeBase + R.OnTimeCount - 1 :
                                     AlarmIsEnabled(s, alarm, oob) })
                 OFF_Cnt ==
                     Cardinality({ alarm \in R.OffTimeBase ..
                                        R.OffTimeBase + R.OffTimeCount - 1 :
                                     AlarmIsEnabled(s, alarm, oob) })
             IN  [l1 |-> [line("ON :", ON_Cnt) EXCEPT !.idx = 0],
                  l2 |-> [line("Times  OFF:", OFF_Cnt) EXCEPT !.idx = 0]]
        ELSE IF m.l_MenuIdx = 0
        THEN IF s.g_PwrInterval[m.l_PwrOut] < 0
             THEN [l1 |-> line("Power Cycle", NONE),
                   l2 |-> line("Config-Error", NONE)]
             ELSE IF s.g_PwrInterval[m.l_PwrOut] = 0
             THEN [l1 |-> line("Power Cycle", NONE),
                   l2 |-> line("is disabled", NONE)]
             ELSE [l1 |-> line("Intvl:", s.g_PwrInterval[m.l_PwrOut]),
                   l2 |-> line("OnDuration:", s.g_On_Duration[m.l_PwrOut])]
        ELSE LET on == R.OnTimeBase + m.l_MenuIdx - 1
                 off == R.OffTimeBase + m.l_MenuIdx - 1
             IN  [l1 |-> IF m.l_MenuIdx > R.OnTimeCount THEN line("", NONE)
                         ELSE IF AlarmIsEnabled(s, on, oob)
                         THEN line("ON  hh:mm", on)
                         ELSE line("ON  --:--", on),
                  l2 |-> IF m.l_MenuIdx > R.OffTimeCount THEN line("", NONE)
                         ELSE IF AlarmIsEnabled(s, off, oob)
                         THEN line("OFF hh:mm", off)
                         ELSE line("OFF --:--", off)]

\* the menu after the keys that lead from the home screen to the first of
\* the three Power Times menus
Entered(s) ==
    LET m == MenuPowerTimes([l_PwrOut |-> 0, l_flgOverview |-> FALSE,
                             l_MenuIdx |-> 0, MaxIdx |-> 0],
                            "MENU_ENTER", PWR_OUT_UA1).m
    IN  [m |-> m, lcd |-> DispPowerTimes(s, m, "clear")]

InitMenu ==
    /\ \E c \in Configs :
          /\ Is([LoadConfiguration(Boot, c) EXCEPT !.log = <<>>])
          /\ LET e == Entered(LoadConfiguration(Boot, c))
             IN  /\ l_PwrOut = e.m.l_PwrOut
                 /\ l_flgOverview = e.m.l_flgOverview
                 /\ l_MenuIdx = e.m.l_MenuIdx
                 /\ MaxIdx = e.m.MaxIdx
                 /\ lcd = e.lcd
    /\ rx = <<>>
    /\ rxPos = 0
    /\ pc = "loop"
    /\ mlEnable = FALSE
    /\ op = [name |-> "Init", rail |-> NONE, en |-> FALSE]
    /\ rep = FALSE
    /\ pfCut = {}
    /\ hist = NoHist
    /\ NoTime
    /\ cal = NoCal

\* key interrupt: MenuKeyHandler(keycode) while the LC-Display is on and one
\* of the three Power Times menus is the current one; the LEFT key in an
\* overview leaves their list.
\* oob is what the alarm clock answers for an id that is no alarm
MenuKey(keycode, oob) ==
    LET r == MenuPowerTimes(CurMenu, keycode, l_PwrOut)
        idx == IF r.ret = "DOWN"
               THEN IF l_PwrOut + 1 = NUM_PWR_OUT THEN 0 ELSE l_PwrOut + 1
               ELSE IF l_PwrOut = 0 THEN NUM_PWR_OUT - 1 ELSE l_PwrOut - 1
        m == IF r.ret \in {"DOWN", "UP"}
             THEN MenuPowerTimes(r.m, "MENU_ENTER", idx).m
             ELSE r.m
    IN  /\ ~(keycode = "LEFT" /\ l_flgOverview)
        /\ Set(Cur)
        /\ op' = [name |-> "MenuKey", rail |-> m.l_PwrOut,
                  en |-> r.ret # "NONE"]
        /\ rep' = FALSE
        /\ l_PwrOut' = m.l_PwrOut
        /\ l_flgOverview' = m.l_flgOverview
        /\ l_MenuIdx' = m.l_MenuIdx
        /\ MaxIdx' = m.MaxIdx
        /\ lcd' = IF r.ret = "NONE" THEN lcd
                  ELSE DispPowerTimes(Cur, m, oob)
        /\ UNCHANGED <<pc, mlEnable, rx, rxPos, pfCut, hist, cal, timeVars>>

NextMenu ==
    \E keycode \in {"DOWN", "UP", "RIGHT", "LEFT"}, oob \in {"clear", "set"} :
       MenuKey(keycode, oob)

SpecMenu == InitMenu /\ [][NextMenu]_vars

(********************************* claims **********************************)
\* C2: with no power-fail, two PowerOutput(r, e) calls in a row produce at
\* most one "Power Output ... enabled/disabled" log line and one
\* DisplayUpdate(UPD_POWERSTATUS), exactly one of each when the first call
\* switches the output; the second call logs nothing, updates nothing and
\* leaves the output bit, the measurement enable pins, the active-channel
\* mask, the ADC request flag, the previous-value registers and all timers
\* as the first call left them.
C2_Idempotent ==
    ~l_flgPowerFail =>
    \A r \in Rails, e \in BOOLEAN :
        LET s1 == PowerOutput(Cur, r, e)
            s2 == PowerOutput([s1 EXCEPT !.log = <<>>, !.disp = <<>>], r, e)
            line == [tag |-> "PowerOutput", arg |-> <<r, IF e THEN 1 ELSE 0>>]
            lines == Len(SelectSeq(s1.log \o s2.log, LAMBDA l : l = line))
            upds == Len(SelectSeq(s1.disp \o s2.disp,
                                  LAMBDA d : d = "UPD_POWERSTATUS"))
        IN  /\ lines = (IF PwrOut[r] = e THEN 0 ELSE 1)
            /\ upds = lines
            /\ s1.PwrOut[r] = e
            /\ s2.log = <<>>
            /\ s2.disp = <<>>
            /\ s2.PwrOut = s1.PwrOut
            /\ s2.MeasPin = s1.MeasPin
            /\ s2.l_ADC_ActiveChanMask = s1.l_ADC_ActiveChanMask
            /\ s2.l_flgADC_On = s1.l_flgADC_On
            /\ s2.l_prev_value_mV = s1.l_prev_value_mV
            /\ s2.l_prev_value_mA = s1.l_prev_value_mA
            /\ s2.sTimer = s1.sTimer

\* C2 witness: the second of two ON alarms in a row of an output that is not
\* the reader's and starts no power cycle: PowerOutput(r, ON) twice
C2_Witness ==
    /\ rep
    /\ op.name = "Alarm"
    /\ op.en
    /\ op.rail # g_RFID_Power
    /\ g_On_Duration[op.rail] < MIN_VAL_ON_DURATION
    /\ ~l_flgPowerFail
    /\ PwrOut[op.rail]
    /\ log = <<>>
    /\ disp = <<>>

\* C3: while IsPowerFail() is true, PowerOutput(r, ON) changes nothing and
\* logs and displays nothing, for every output r; PowerOutput(r, OFF)
\* switches an output off that is on and does nothing to one that is off.
C3_PowerFailGuard ==
    l_flgPowerFail =>
    \A r \in Rails :
        LET s1 == PowerOutput(Cur, r, PWR_OFF)
        IN  /\ PowerOutput(Cur, r, PWR_ON) = Cur
            /\ IF PwrOut[r]
               THEN /\ ~s1.PwrOut[r]
                    /\ \A q \in Rails \ {r} : s1.PwrOut[q] = PwrOut[q]
               ELSE s1 = Cur

\* C3 witness: during power-fail a key press asked for a switched-off output
\* to be switched on
C3_Witness ==
    /\ l_flgPowerFail
    /\ op.name = "MenuPowerOutput"
    /\ op.en
    /\ ~PwrOut[op.rail]
    /\ log = <<>>
    /\ disp = <<>>

C7_Bridging ==
    /\ \A i \in 1 .. Len(calls) :
          calls[i].fn = (IF calls[i].rail # g_RFID_Power THEN "PowerOutput"
                         ELSE IF calls[i].en THEN "RFID_Enable"
                         ELSE "RFID_Disable")
    /\ op.name = "Alarm" =>
          /\ Len(calls) = 1
          /\ calls[1].rail = op.rail
          /\ calls[1].en = op.en
    /\ op.name \notin {"Alarm", "Tick"} => calls = <<>>

\* C7 witness: the cycle timer of the reader's output has decided OFF
C7_Witness ==
    /\ op.name = "Tick"
    /\ calls = <<[fn |-> "RFID_Disable", rail |-> g_RFID_Power, en |-> FALSE]>>


\* C1: for an output r other than g_RFID_Power with Interval >= 10,
\* OnDuration >= 5 and Interval - OnDuration >= 5, in steps without
\* power-fail and without a manual switch of r: an ON alarm of r leaves r on
\* with OnDuration seconds to run; while the cycle runs, r and its countdown
\* change only with the seconds, the countdown by one per second, and when
\* it runs out r changes over and the countdown is set to the length of the
\* new phase (OnDuration when on, Interval - OnDuration when off); only an
\* alarm of r ends this.
C1_PowerCycling ==
    [][\A r \in Rails :
        LET h == l_hdlPwrInterval(r)
            on == g_On_Duration[r]
            off == g_PwrInterval[r] - g_On_Duration[r]
        IN  ( /\ r # g_RFID_Power
              /\ g_PwrInterval[r] >= 10 /\ on >= 5 /\ off >= 5
              /\ ~l_flgPowerFail /\ ~l_flgPowerFail'
              /\ ~(op'.name = "MenuPowerOutput" /\ op'.rail = r) )
            => IF op'.name = "Alarm" /\ op'.rail = r
               THEN op'.en => (PwrOut'[r] /\ sTimer'[h] = on)
               ELSE sTimer[h] > 0 =>
                    IF op'.name # "Tick"
                    THEN PwrOut'[r] = PwrOut[r] /\ sTimer'[h] = sTimer[h]
                    ELSE IF sTimer[h] > 1
                    THEN PwrOut'[r] = PwrOut[r] /\ sTimer'[h] = sTimer[h] - 1
                    ELSE /\ PwrOut'[r] = ~PwrOut[r]
                         /\ sTimer'[h] = IF PwrOut'[r] THEN on ELSE off
    ]_vars

\* C5: an output whose power cycle was running when the power-fail handlers
\* ran stays off after power-fail has cleared, until the next ON alarm of
\* the output or a manual switch: no timer expiry switches it on.
C5_PowerFailEndsCycle ==
    [][\A r \in pfCut :
          (~PwrOut[r] /\ PwrOut'[r]) =>
              /\ op'.name \in {"Alarm", "MenuPowerOutput"}
              /\ op'.rail = r
    ]_vars

\* C6: an OFF alarm of an output r other than g_RFID_Power leaves r off and
\* its power-cycle timer disarmed; an output r other than g_RFID_Power that
\* is off with its power-cycle timer disarmed is switched on only by an ON
\* alarm of r or by a manual switch of r, and its timer is armed only by an
\* ON alarm of r.
C6_AlarmOff ==
    [][\A r \in Rails \ {g_RFID_Power} :
        LET h == l_hdlPwrInterval(r)
        IN  /\ (op'.name = "Alarm" /\ op'.rail = r /\ ~op'.en)
                   => (~PwrOut'[r] /\ sTimer'[h] = 0)
            /\ (~PwrOut[r] /\ sTimer[h] = 0 /\ PwrOut'[r])
                   => /\ op'.name \in {"Alarm", "MenuPowerOutput"}
                      /\ op'.rail = r
                      /\ op'.en
            /\ (~PwrOut[r] /\ sTimer[h] = 0 /\ sTimer'[h] > 0)
                   => op' = [name |-> "Alarm", rail |-> r, en |-> TRUE]
    ]_vars

\* C6 witness: an OFF alarm has switched off a cycling output that was on
C6_Witness ==
    /\ op.name = "Alarm"
    /\ ~op.en
    /\ op.rail # g_RFID_Power
    /\ g_PwrInterval[op.rail] >= MIN_VAL_INTERVAL
    /\ log = <<[tag |-> "PowerOutput", arg |-> <<op.rail, 0>>]>>
    /\ ~PwrOut[op.rail]
    /\ sTimer[l_hdlPwrInterval(op.rail)] = 0

\* C8: for an output r other than g_RFID_Power whose Interval is 0 or -1, in
\* steps without power-fail: an ON alarm of r leaves r on; r, once on, stays
\* on in every step that is neither an alarm of r nor a manual switch of r;
\* and the seconds only run the countdown of r down, they never set it.
C8_SteadySwitching ==
    [][\A r \in Rails :
        LET h == l_hdlPwrInterval(r)
        IN  ( /\ r # g_RFID_Power
              /\ g_PwrInterval[r] \in {0, -1}
              /\ ~l_flgPowerFail /\ ~l_flgPowerFail' )
            => /\ (op' = [name |-> "Alarm", rail |-> r, en |-> TRUE])
                      => PwrOut'[r]
               /\ (PwrOut[r] /\ ~(op'.name \in {"Alarm", "MenuPowerOutput"}
                                  /\ op'.rail = r))
                      => PwrOut'[r]
               /\ op'.name = "Tick"
                      => sTimer'[h] = (IF sTimer[h] > 0 THEN sTimer[h] - 1
                                       ELSE 0)
    ]_vars


\* C9: VerifyConfiguration() leaves every output either with Interval <= 0
\* and both values as configured, or with Interval >= 10, OnDuration >= 5
\* and Interval - OnDuration >= 5 and both values as configured, or with
\* Interval = OnDuration = -1; the last exactly when the configured Interval
\* is positive and violates one of the three minimums, and then exactly one
\* error is logged for the output, otherwise none; it returns and changes
\* no output, no measurement enable pin and no timer.
C9_VerifyPostcondition ==
    [][op'.name = "VerifyConfiguration" =>
        /\ \A i \in Rails :
              LET cI == g_PwrInterval[i]
                  cD == g_On_Duration[i]
                  vI == g_PwrInterval'[i]
                  vD == g_On_Duration'[i]
                  bad == cI > 0 /\ (cI < 10 \/ cD < 5 \/ cI - cD < 5)
                  errs == Len(SelectSeq(log', LAMBDA l :
                                 l.tag = "LogError" /\ l.arg[1] = i))
              IN  /\ \/ (vI <= 0 /\ vI = cI /\ vD = cD)
                     \/ (vI >= 10 /\ vD >= 5 /\ vI - vD >= 5
                         /\ vI = cI /\ vD = cD)
                     \/ (vI = -1 /\ vD = -1)
                  /\ (vI = -1 /\ vD = -1) <=> bad
                  /\ errs = (IF bad THEN 1 ELSE 0)
        /\ pc' = "init"
        /\ PwrOut' = PwrOut
        /\ MeasPin' = MeasPin
        /\ sTimer' = sTimer
    ]_vars

\* C9 witness: in a running device the values of UA1 have been rejected with
\* one error, those of UA2 and BATT have been kept
C9_Witness ==
    /\ op.name = "VerifyConfiguration"
    /\ PwrOut[PWR_OUT_UA1]
    /\ sTimer[l_hdlPwrInterval(PWR_OUT_UA1)] > 0
    /\ g_PwrInterval = Tup(-1, 10, 0)
    /\ g_On_Duration = Tup(-1, 5, 6)
    /\ Len(log) = 1
    /\ log[1].arg[1] = PWR_OUT_UA1

\* C10: a well-formed Short Range frame fed to the decoder at position 0 of
\* a new run raises the new-ID notification with its last byte, not before,
\* and the stored ID then is the 16 upper-case hex characters of the eight
\* payload bytes (frame positions 5..12), last payload byte first.
C10_ShortRangeID ==
    \A p \in Payloads :
        (l_pRFID_Cfg.RFID_Type = RFID_TYPE_SR /\ SubSeq(rx, 1, 14) = FrameSR(p))
        => /\ rxPos < 14 => ~l_flgNewID
           /\ rxPos = 14 =>
                 /\ l_flgNewID
                 /\ g_Transponder =
                       [k \in 1 .. 16 |->
                           LET byte == p[8 - ((k - 1) \div 2)]
                           IN  IF k % 2 = 1 THEN HexChar(byte \div 16)
                               ELSE HexChar(byte % 16)]

\* C11 as stated: a valid frame that follows the same valid frame, with no
\* RFID_Enable() and no absence expiry in between, does not raise the new-ID
\* flag; a valid frame with no such predecessor raises it; every valid frame
\* starts the absence timer with g_RFID_AbsentDetectTimeout when that is > 0.
C11_RepeatFrames ==
    [][(op'.name = "RxByte" /\ op'.en) =>
          /\ hist.last = hist'.last => l_flgNewID' = l_flgNewID
          /\ hist.last = <<>> => l_flgNewID'
          /\ g_RFID_AbsentDetectTimeout > 0 =>
                sTimer'[HDL_ABSENT] = g_RFID_AbsentDetectTimeout
    ]_vars

\* C11 amended: a valid frame that follows the same valid frame, with no
\* RFID_Enable(), no absence expiry and no press of the clear key in
\* between, does not raise the new-ID flag; a valid frame with no such
\* predecessor raises it; every valid frame starts the absence timer with
\* g_RFID_AbsentDetectTimeout when that is > 0.
C11_RepeatFramesKept ==
    [][(op'.name = "RxByte" /\ op'.en) =>
          /\ hist.kept = hist'.kept => l_flgNewID' = l_flgNewID
          /\ hist.kept = <<>> => l_flgNewID'
          /\ g_RFID_AbsentDetectTimeout > 0 =>
                sTimer'[HDL_ABSENT] = g_RFID_AbsentDetectTimeout
    ]_vars

\* C11 witness: the second of two equal frames has been decoded after the
\* first was reported; it raised no flag and restarted the absence timer
C11_Witness ==
    /\ op.name = "RxByte"
    /\ op.en
    /\ rxPos = 2 * FrameLen(g_RFID_Type)
    /\ ~l_flgNewID
    /\ g_Transponder # EOS
    /\ g_RFID_AbsentDetectTimeout > 0
    /\ sTimer[HDL_ABSENT] = g_RFID_AbsentDetectTimeout

\* the bytes f are a frame of the given type with a correct prefix
PrefixOK(type, f) ==
    IF type = RFID_TYPE_SR THEN SubSeq(f, 1, 5) = v ELSE f[1] = 84

\* the checksum at the end of the frame f is the one of its bytes
ChecksumOK(type, f) ==
    IF type = RFID_TYPE_SR THEN f[14] = XorAll(SubSeq(f, 1, 13))
    ELSE f[10] + (256 * f[11]) = CrcAll(0, SubSeq(f, 2, 9))

\* C12: the last byte of a frame with a correct prefix and a wrong checksum
\* raises no new-ID flag, leaves the stored ID, the new-run flag and all
\* timers as they are, sets the decoder position to 0 and emits exactly one
\* error log line, which holds the bytes of the frame.
C12_ChecksumError ==
    [][LET type == l_pRFID_Cfg.RFID_Type
           n == FrameLen(type)
           f == SubSeq(rx, rxPos' - n + 1, rxPos')
       IN  ( /\ op'.name = "RxByte"
             /\ l_State = n - 1
             /\ rxPos' >= n
             /\ PrefixOK(type, f)
             /\ ~ChecksumOK(type, f) )
           => /\ l_flgNewID' = l_flgNewID
              /\ g_Transponder' = g_Transponder
              /\ l_flgNewRun' = l_flgNewRun
              /\ sTimer' = sTimer
              /\ l_State' = 0
              /\ Len(log') = 1
              /\ log'[1].tag = "LogError"
              /\ SubSeq(log'[1].arg, 3, n + 2) = f
    ]_vars

\* C12 witness: a frame with a wrong checksum has been rejected while an ID
\* is stored and the absence timer runs
C12_Witness ==
    /\ op.name = "RxByte"
    /\ rxPos = 2 * FrameLen(g_RFID_Type)
    /\ ~ChecksumOK(g_RFID_Type, SubSeq(rx, rxPos - FrameLen(g_RFID_Type) + 1,
                                       rxPos))
    /\ Len(log) = 1
    /\ l_State = 0
    /\ g_Transponder # EOS
    /\ sTimer[HDL_ABSENT] = CfgAbsent

\* the ID of a frame: the 16 upper-case hex characters of its eight payload
\* bytes, last payload byte first
FrameID(p) ==
    [k \in 1 .. 16 |->
        LET byte == p[8 - ((k - 1) \div 2)]
        IN  IF k % 2 = 1 THEN HexChar(byte \div 16) ELSE HexChar(byte % 16)]

\* C13: the stored ID is empty or the ID of a frame that has been received
\* completely and with a correct checksum.
C13_TransponderBuffer ==
    \/ g_Transponder = EOS
    \/ \E pos \in 1 .. rxPos :
          /\ FrameAt(rx, l_pRFID_Cfg.RFID_Type, pos) # <<>>
          /\ g_Transponder = FrameID(FrameAt(rx, l_pRFID_Cfg.RFID_Type, pos))

\* C14 as stated: the first valid frame after RFID_Enable() raises the
\* new-ID flag and clears the new-run flag, whatever ID is stored; only
\* RFID_Enable() sets the new-run flag; a later frame of the same run that
\* equals an earlier one of the run does not raise the flag.
C14_NewRun ==
    [][/\ (op'.name = "RxByte" /\ op'.en /\ hist.run)
              => (l_flgNewID' /\ ~l_flgNewRun' /\ g_Transponder' # EOS)
       /\ (op'.name = "RxByte" /\ op'.en) => ~l_flgNewRun'
       /\ (l_flgNewRun' /\ ~l_flgNewRun)
              => op' = [name |-> "Alarm", rail |-> g_RFID_Power, en |-> TRUE]
       /\ (op'.name = "RxByte" /\ op'.en /\ hist'.last \in hist.seen)
              => l_flgNewID' = l_flgNewID
    ]_vars

\* C14 amended: the first valid frame after RFID_Enable() raises the new-ID
\* flag and clears the new-run flag, whatever ID is stored; only
\* RFID_Enable() sets the new-run flag; a later frame of the same run that
\* equals the frame before it does not raise the flag unless the stored ID
\* has been cleared in between, by TransponderAbsent or by the clear key.
C14_NewRunKept ==
    [][/\ (op'.name = "RxByte" /\ op'.en /\ hist.run)
              => (l_flgNewID' /\ ~l_flgNewRun' /\ g_Transponder' # EOS)
       /\ (op'.name = "RxByte" /\ op'.en) => ~l_flgNewRun'
       /\ (l_flgNewRun' /\ ~l_flgNewRun)
              => op' = [name |-> "Alarm", rail |-> g_RFID_Power, en |-> TRUE]
       /\ (op'.name = "RxByte" /\ op'.en /\ hist'.last \in hist.seen
             /\ hist.kept = hist'.last)
              => l_flgNewID' = l_flgNewID
    ]_vars

\* C14 witness: the first frame of a new run carried the ID that was still
\* stored from the run before, and raised the flag
C14_Witness ==
    /\ op.name = "RxByte"
    /\ op.en
    /\ hist.stale
    /\ l_flgNewID
    /\ ~l_flgNewRun

\* C15: RFID_Disable() called for a configured reader that is enabled and
\* powered, with absence detection off or no ID stored, returns with the
\* reader's output off, the UART off, the decoder position 0, the absence
\* timer disarmed and l_flgRFID_On and l_flgRFID_IsOn false.
C15_ImmediateDisable ==
    ( /\ l_flgRFID_Activate
      /\ l_flgRFID_On
      /\ l_flgRFID_IsOn
      /\ (g_RFID_AbsentDetectTimeout = 0 \/ g_Transponder = EOS) )
    => LET s1 == RFID_Disable(Cur)
       IN  /\ ~s1.PwrOut[g_RFID_Power]
           /\ ~s1.uartOn
           /\ s1.l_State = 0
           /\ s1.sTimer[HDL_ABSENT] = 0
           /\ ~s1.l_flgRFID_On
           /\ ~s1.l_flgRFID_IsOn

\* C15 witness: an OFF alarm has called RFID_Disable() in the middle of a
\* frame, with an ID stored and absence detection off, and the reader has
\* been powered off in the call
C15_Witness ==
    /\ op.name = "Alarm"
    /\ ~op.en
    /\ calls = <<[fn |-> "RFID_Disable", rail |-> g_RFID_Power, en |-> FALSE]>>
    /\ g_RFID_AbsentDetectTimeout = 0
    /\ g_Transponder # EOS
    /\ rxPos % FrameLen(g_RFID_Type) # 0
    /\ \E i \in 1 .. Len(log) :
          log[i] = [tag |-> "PowerOutput", arg |-> <<g_RFID_Power, 0>>]
    /\ ~PwrOut[g_RFID_Power]
    /\ ~uartOn
    /\ l_State = 0
    /\ ~l_flgRFID_IsOn

\* the reader is still powered after an RFID_Disable() that was called
\* with absence detection on and an ID stored
Deferred ==
    /\ hist.defer
    /\ ~l_flgRFID_On
    /\ l_flgRFID_IsOn

\* RFID_Check() has started or completed the power-off of the reader in
\* the step
PowerOffStarted ==
    /\ op'.name = "RFID_Check"
    /\ pc = "check"
    /\ \/ pc' = "pwr" /\ ~mlEnable'
       \/ ~l_flgRFID_IsOn'

\* the step leaves the reader powered and decoding
StaysPowered ==
    /\ l_flgRFID_IsOn'
    /\ PwrOut'[g_RFID_Power] = PwrOut[g_RFID_Power]
    /\ uartOn' = uartOn

AbsentLogged ==
    \E i \in 1 .. Len(log') : log'[i].tag = "Absent"

\* the step is the RTC tick that ends the T-th second after the last valid
\* frame
AbsentDue ==
    /\ op'.name = "Tick"
    /\ g_RFID_AbsentDetectTimeout > 0
    /\ hist.age = g_RFID_AbsentDetectTimeout - 1

\* C17 as stated: with absence timeout T > 0 a valid frame starts the absence
\* timer with T; when T seconds have passed after a valid frame without
\* another one, TransponderAbsent fires, then and at no other time, logs the
\* stored ID as absent and empties it; a valid frame decoded while the
\* stored ID is empty raises the new-ID notification.  With T = 0 the timer
\* is never started and no tick changes the stored ID.
C17_AbsenceDetection ==
    [][/\ (op'.name = "RxByte" /\ op'.en /\ g_RFID_AbsentDetectTimeout > 0)
          => sTimer'[HDL_ABSENT] = g_RFID_AbsentDetectTimeout
       /\ AbsentDue
          => /\ log' = <<[tag |-> "Absent", arg |-> g_Transponder]>>
             /\ g_Transponder' = EOS
       /\ AbsentLogged => AbsentDue
       /\ (op'.name = "RxByte" /\ op'.en /\ g_Transponder = EOS)
          => l_flgNewID'
       /\ g_RFID_AbsentDetectTimeout = 0
          => /\ sTimer'[HDL_ABSENT] = 0
             /\ op'.name = "Tick" => g_Transponder' = g_Transponder
    ]_vars

\* C17 amended: as C17, for a stored ID that the menu clear key has not
\* emptied since the last valid frame.
C17_AbsenceDetectionNoKey ==
    [][/\ (op'.name = "RxByte" /\ op'.en /\ g_RFID_AbsentDetectTimeout > 0)
          => sTimer'[HDL_ABSENT] = g_RFID_AbsentDetectTimeout
       /\ (AbsentDue /\ ~hist.key)
          => /\ log' = <<[tag |-> "Absent", arg |-> g_Transponder]>>
             /\ g_Transponder # EOS
             /\ g_Transponder' = EOS
       /\ AbsentLogged => AbsentDue
       /\ (op'.name = "RxByte" /\ op'.en /\ g_Transponder = EOS)
          => l_flgNewID'
       /\ g_RFID_AbsentDetectTimeout = 0
          => /\ sTimer'[HDL_ABSENT] = 0
             /\ op'.name = "Tick" => g_Transponder' = g_Transponder
    ]_vars

\* C17 witness: after TransponderAbsent has fired, a valid frame has stored
\* the ID again, raised the notification and restarted the timer
C17_Witness ==
    /\ op = [name |-> "RxByte", rail |-> NONE, en |-> TRUE]
    /\ g_RFID_AbsentDetectTimeout > 0
    /\ hist.absent
    /\ hist.age = 0
    /\ g_Transponder # EOS
    /\ l_flgNewID
    /\ sTimer[HDL_ABSENT] = g_RFID_AbsentDetectTimeout

\* C18 as stated: a calibration of UA1 or UA2 whose voltage reference or
\* current reference is 0 changes no divider and divides by zero nowhere.
C18_ZeroReference ==
    [][(/\ op'.name = "MenuCalibrateOutput"
        /\ \/ cal.g_UA_Calib_mV[op'.rail - PWR_OUT_UA1] = 0
           \/ cal.g_UA_Calib_mA[op'.rail - PWR_OUT_UA1] = 0)
       => /\ cal'.l_mV_Divider = cal.l_mV_Divider
          /\ cal'.l_mA_Divider = cal.l_mA_Divider
          /\ ~cal'.divz
          /\ ~cal'.fault
    ]_vars

\* UA1 has just been calibrated with a voltage reference of 5000 mV
CalibratedUA1 ==
    /\ op = [name |-> "MenuCalibrateOutput", rail |-> PWR_OUT_UA1, en |-> TRUE]
    /\ cal.g_UA_Calib_mV[0] = 5000

\* PowerVoltage(UA1) returns a value within 1 of 5000
Reads5000 ==
    \A o \in PowerVoltage(cal, PWR_OUT_UA1) :
        ~o.fault /\ o.q[1] = 0 /\ o.q[2] \in 4999 .. 5001

\* C19 as stated: for every conversion result X > 0 of the voltage channel,
\* CalibrateVoltage(UA1, 5000) followed by PowerVoltage(UA1) on the same X
\* returns a value within 1 of 5000.
C19_Accuracy ==
    (CalibratedUA1 /\ cal.l_ADC_Value[0] > 0) => Reads5000

\* C19 amended: for every conversion result X >= 178 of the voltage
\* channel, CalibrateVoltage(UA1, 5000) followed by PowerVoltage(UA1) on the
\* same X returns a value within 1 of 5000.
C19_AccuracyFrom178 ==
    (CalibratedUA1 /\ cal.l_ADC_Value[0] >= 178) => Reads5000

\* C19 witness: calibrated at X = 40000 the divider is 8 << 16 and the
\* voltage reads 5000
C19_Witness ==
    /\ CalibratedUA1
    /\ cal.l_ADC_Value[0] = 40000
    /\ cal.l_mV_Divider[0] = <<8, 0>>
    /\ PowerVoltage(cal, PWR_OUT_UA1) = { [q |-> <<0, 5000>>, fault |-> FALSE] }

\* C20: WriteCalibrationData() followed by ReadCalibrationData() on the
\* storage it wrote restores the four dividers of every reachable state.
C20_RoundTrip ==
    LET wr == WriteCalibrationData(Cur, cal)
        rd == ReadCalibrationData(wr.s, wr.c)
    IN  /\ wr.c.ee.magic = MAGIC_ID
        /\ rd.c.l_mV_Divider = cal.l_mV_Divider
        /\ rd.c.l_mA_Divider = cal.l_mA_Divider

\* C20 witness: after a reset the dividers are those of a calibration that
\* was saved, one of them the largest that occurs, 0xFFFF0000
C20_Witness ==
    /\ op = [name |-> "ControlInit", rail |-> NONE, en |-> TRUE]
    /\ cal.ee.magic = MAGIC_ID
    /\ cal.l_mV_Divider[0] = <<65535, 0>>
    /\ cal.l_mA_Divider[0] # Unity

\* C21: when one byte of the saved block differs from what
\* WriteCalibrationData() wrote, ReadCalibrationData() leaves all four
\* dividers at 1 << 16 and logs, after the line that announces the read, one
\* line and no error.
C21_Corruption ==
    [][(op.name = "CorruptByte" /\ op'.name = "ControlInit")
       => /\ \A i \in Units : /\ cal'.l_mV_Divider[i] = Unity
                              /\ cal'.l_mA_Divider[i] = Unity
          /\ log' = <<[tag |-> "ReadCalibrationData", arg |-> <<>>],
                      [tag |-> "CalibrationDefaults", arg |-> <<>>]>>
          /\ ~cal'.fault
    ]_vars

\* C21 witness: after a reset the dividers are unity although the block
\* has the magic word and holds the halves of other dividers
C21_Witness ==
    /\ op = [name |-> "ControlInit", rail |-> NONE, en |-> FALSE]
    /\ cal.ee.magic = MAGIC_ID
    /\ cal.ee.ua1mV_h = 65535
    /\ cal.ee.ua1mA_l = 13
    /\ \A i \in Units : cal.l_mV_Divider[i] = Unity /\ cal.l_mA_Divider[i] = Unity

\* C22: a step of CfgParse that parses the time h:m (h in 0..23) for a time
\* variable stores for its alarm the hour h + 1, or 0 for h = 23, with the
\* minute m while g_isdst is set, and the hour h with the minute m while it
\* is clear; the alarm is enabled and the time of no other alarm changes
C22_DstShift ==
    [][\A h \in DstHours, m \in DstMinutes, two \in BOOLEAN :
          (op'.name = "CfgParse" /\ cfgLine'.value = TimeText(h, m, two)
             /\ IsTimeVar(VarIdx(cfgLine'.name)))
          => LET alarm == ALARM_UA1_ON_TIME_1 + VarIdx(cfgLine'.name)
             IN  /\ alarmTime'[alarm]
                      = <<IF g_isdst THEN (h + 1) % 24 ELSE h, m>>
                 /\ alarm \in alarmEnabled'
                 /\ \A a \in PowerAlarms \ {alarm} :
                       alarmTime'[a] = alarmTime[a]]_vars

\* C22 witness: on daylight-saving time the line "UA1_ON_TIME_1 = 23:59" has
\* been parsed and the alarm is set to 0:59
C22_Witness ==
    /\ g_isdst
    /\ op.name = "CfgParse"
    /\ cfgLine = [name |-> "UA1_ON_TIME_1", value |-> TimeText(23, 59, TRUE)]
    /\ alarmTime[ALARM_UA1_ON_TIME_1] = <<0, 59>>
    /\ ALARM_UA1_ON_TIME_1 \in alarmEnabled

\* the measurement unit m is active: its enable pin is set or one of its
\* channels is part of the ADC scan
MeasureActive(m) ==
    \/ MeasPin[m]
    \/ ChanU(m) \in l_ADC_ActiveChanMask
    \/ ChanI(m) \in l_ADC_ActiveChanMask

\* the follow-up timer of the measurement unit m is armed
FollowUpArmed(m) == sTimer[hdlFollowUpTime(m)] > 0

C24_FollowUp ==
    [][/\ \A output \in Rails :
            LET m == Measure(output)
                hdl == hdlFollowUpTime(m)
            IN  (m # MEASURE_NONE /\ FollowUpTime[m] > 0)
                => /\ (PwrOut[output] /\ ~PwrOut'[output])
                      => /\ sTimer'[hdl] = FollowUpTime[m]
                         /\ MeasPin'[m]
                         /\ {ChanU(m), ChanI(m)} \subseteq l_ADC_ActiveChanMask'
                   /\ (~PwrOut[output] /\ ~PwrOut'[output] /\ sTimer[hdl] > 0)
                      => /\ sTimer'[hdl] = IF op'.name = "Tick"
                                           THEN sTimer[hdl] - 1
                                           ELSE sTimer[hdl]
                         /\ sTimer'[hdl] = 0
                            => /\ ~MeasPin'[m]
                               /\ ChanU(m) \notin l_ADC_ActiveChanMask'
                               /\ ChanI(m) \notin l_ADC_ActiveChanMask'
                   /\ (~PwrOut[output] /\ PwrOut'[output])
                      => /\ sTimer'[hdl] = 0
                         /\ MeasPin'[m]
                         /\ {ChanU(m), ChanI(m)} \subseteq l_ADC_ActiveChanMask'
                         /\ l_flgADC_On'
       /\ (l_flgADC_On /\ ~l_flgADC_On') => l_ADC_ActiveChanMask' = {}
       /\ (l_flgADC_On /\ l_ADC_ActiveChanMask' # {}) => l_flgADC_On'
      ]_vars

\* the values Control() computes for the unit m: PowerVoltage() + 50 and
\* PowerCurrent(), for dividers other than 0
Value_mV(m) ==
    AddU32(DivU32(Shl16(cal.l_ADC_Value[m * 2]), cal.l_mV_Divider[m]), 50)

Value_mA(m) ==
    DivU32(Shl16(cal.l_ADC_Value[(m * 2) + 1]), cal.l_mA_Divider[m])

\* C25: a call of Control() logs a line of the unit m iff m is active and
\* the voltage differs from the previous one by U_MinDiff or more or the
\* current by I_MinDiff or more; the previous voltage is replaced iff m is
\* active and the voltage condition holds, the previous current iff m is
\* active and the current condition holds; a step that switches the output
\* on sets both previous values to 0
C25_MinDiffLogging ==
    [][\A m \in Units :
          /\ op'.name = "Control"
             => LET condU == U32Le(U32(U_MinDiff[m]),
                                   AbsDiff(Value_mV(m), l_prev_value_mV[m]))
                    condI == U32Le(U32(I_MinDiff[m]),
                                   AbsDiff(Value_mA(m), l_prev_value_mA[m]))
                    lines == { i \in DOMAIN log' :
                                 log'[i].tag = "UA" /\ log'[i].arg[1] = m }
                IN  /\ (lines # {})
                       <=> (MeasureActive(m) /\ (condU \/ condI))
                    /\ Cardinality(lines) <= 1
                    /\ \A i \in lines :
                          log'[i].arg = <<m, Value_mV(m), Value_mA(m)>>
                    /\ l_prev_value_mV'[m]
                          = IF MeasureActive(m) /\ condU THEN Value_mV(m)
                            ELSE l_prev_value_mV[m]
                    /\ l_prev_value_mA'[m]
                          = IF MeasureActive(m) /\ condI THEN Value_mA(m)
                            ELSE l_prev_value_mA[m]
          /\ (~PwrOut[PWR_OUT_UA1 + m] /\ PwrOut'[PWR_OUT_UA1 + m])
             => /\ l_prev_value_mV'[m] = <<0, 0>>
                /\ l_prev_value_mA'[m] = <<0, 0>>
          /\ (op'.name # "Control"
              /\ ~(~PwrOut[PWR_OUT_UA1 + m] /\ PwrOut'[PWR_OUT_UA1 + m]))
             => /\ l_prev_value_mV'[m] = l_prev_value_mV[m]
                /\ l_prev_value_mA'[m] = l_prev_value_mA[m]]_vars

\* C25 witness: Control() has logged UA1 with a voltage that differs from
\* the previous one by exactly the minimum, the current being kept
C25_Witness ==
    /\ op.name = "Control"
    /\ \E i \in DOMAIN log : log[i].tag = "UA" /\ log[i].arg[1] = 0
    /\ U_MinDiff[0] = DFLT_MEASURE_U_MIN_DIFF
    /\ l_prev_value_mV[0] = <<0, 100>>
    /\ l_prev_value_mA[0] = <<0, 0>>
    /\ Value_mA(0) = <<0, 9>>
    /\ MeasureActive(0)

\* C26: for every output, direction and n in 1..5 the variable
\* <output>_ON_TIME_n or <output>_OFF_TIME_n is bound by CfgParse to a power
\* alarm, which a successful parse of the variable enables; in every state
\* AlarmPowerControl for that alarm makes exactly one switching call, for
\* the output and the direction the variable names, and leaves a plain
\* output in that state and the reader's enable flag in that direction;
\* when only that alarm is enabled, an alarm step makes exactly that call
C26_AlarmAttribution ==
    [][\A output \in Rails, on \in BOOLEAN, n \in 1 .. 5 :
          LET name == TimeName(output, on, n)
              a == ALARM_UA1_ON_TIME_1 + VarIdx(name)
              t == AlarmPowerControl(Cur, a)
              fns == IF output = g_RFID_Power
                     THEN {IF on THEN "RFID_Enable" ELSE "RFID_Disable"}
                     ELSE {"PowerOutput"}
          IN  /\ a \in PowerAlarms
              /\ (op'.name = "CfgParse" /\ op'.en /\ cfgLine'.name = name)
                 => alarmEnabled' = alarmEnabled \cup {a}
              /\ Len(t.calls) = 1
              /\ t.calls[1].rail = output
              /\ t.calls[1].en = on
              /\ t.calls[1].fn \in fns
              /\ IF output = g_RFID_Power THEN t.l_flgRFID_On = on
                 ELSE t.PwrOut[output] = on
              /\ (alarmEnabled = {a} /\ op'.name = "Alarm")
                 => /\ Len(calls') = 1
                    /\ calls'[1].rail = output
                    /\ calls'[1].en = on
                    /\ calls'[1].fn \in fns]_vars

\* C26 witness: the file has set UA2_ON_TIME_3 only, the reader is fed by
\* UA2, and the alarm has called RFID_Enable for UA2
C26_Witness ==
    /\ op.name = "Alarm"
    /\ alarmEnabled = {ALARM_UA1_ON_TIME_1 + VarIdx("UA2_ON_TIME_3")}
    /\ alarmTime[ALARM_UA1_ON_TIME_1 + VarIdx("UA2_ON_TIME_3")] = <<7, 30>>
    /\ g_RFID_Power = PWR_OUT_UA2
    /\ l_flgRFID_Activate
    /\ calls = <<[fn |-> "RFID_Enable", rail |-> PWR_OUT_UA2, en |-> PWR_ON]>>
    /\ l_flgRFID_On

\* C27: a step of the main loop (RFID_Check) changes neither the decoder
\* position l_State nor the frame buffer nor the stored ID; they change in
\* interrupt context only
C27_Confinement ==
    [][op'.name = "RFID_Check"
       => /\ l_State' = l_State
          /\ w' = w
          /\ g_Transponder' = g_Transponder]_vars

\* C28: a received byte that fails the prefix check (Short Range: positions
\* 0..4 against 0x0E, 0x00, 0x11, 0x00, 0x05; Long Range: position 0 against
\* 0x54) sets the decoder position to 0, emits a diagnostic log entry, raises
\* no new-ID flag and leaves the stored ID and all timers as they are.
C28_PrefixError ==
    [][LET type == l_pRFID_Cfg.RFID_Type
           byte == rx[rxPos']
       IN  ( /\ op'.name = "RxByte"
             /\ IF type = RFID_TYPE_SR
                THEN l_State \in 0 .. 4 /\ byte # v[l_State + 1]
                ELSE l_State = 0 /\ byte # 84 )
           => /\ l_State' = 0
              /\ Len(log') >= 1
              /\ l_flgNewID' = l_flgNewID
              /\ g_Transponder' = g_Transponder
              /\ sTimer' = sTimer
    ]_vars

\* C29: the RFID_Check() that follows an RFID_Enable() (ON alarm of the
\* reader's output) leaves the reader's output and the UART powered and the
\* decoder position at 0, whether it had to power the reader on or found it
\* still powered.
C29_EnableResets ==
    [][( /\ op'.name = "RFID_Check"
         /\ pc' = "loop"
         /\ \/ op.name = "Alarm" /\ op.en = PWR_ON /\ pc = "check"
            \/ pc = "pwr" /\ mlEnable )
       => /\ PwrOut'[l_pRFID_Cfg.RFID_PwrOut]
          /\ uartOn'
          /\ l_State' = 0
    ]_vars

\* C30: when an ON alarm of an output fires with no power-fail, the output
\* is on at once if it is a plain output, and it is eventually on if it is the
\* output named by RFID_POWER (unless the reader is disabled or the power
\* fails before), with or without RFID_TYPE in the configuration file.
C30_OnAlarm ==
    /\ [][( /\ op'.name = "Alarm"
            /\ op'.en = PWR_ON
            /\ ~l_flgPowerFail
            /\ op'.rail # g_RFID_Power )
          => PwrOut'[op'.rail]]_vars
    /\ \A R \in Rails :
          ( /\ op.name = "Alarm"
            /\ op.en = PWR_ON
            /\ op.rail = R
            /\ R = g_RFID_Power
            /\ ~l_flgPowerFail )
          ~> (PwrOut[R] \/ ~l_flgRFID_On \/ l_flgPowerFail)

\* C31: when the power-cycle timer of an output with active cycling expires,
\* IntervalPowerControl() requests the opposite of the output's state and
\* arms the timer with the matching duration: ON_DURATION if it requests ON,
\* INTERVAL - ON_DURATION if it requests OFF; a plain output takes the
\* requested state unless a switch-on is refused under power-fail, the
\* reader's output has its enable flag set to the requested state
C31_CyclePhase ==
    [][\A R \in Rails :
          ( /\ op'.name = "Tick"
            /\ sTimer[l_hdlPwrInterval(R)] = 1
            /\ g_PwrInterval[R] >= MIN_VAL_INTERVAL )
          => LET on == ~PwrOut[R]
             IN  /\ sTimer'[l_hdlPwrInterval(R)] =
                       IF on THEN g_On_Duration[R]
                       ELSE g_PwrInterval[R] - g_On_Duration[R]
                 /\ sTimer'[l_hdlPwrInterval(R)] > 0
                 /\ R # g_RFID_Power
                       => \/ PwrOut'[R] = on
                          \/ on /\ l_flgPowerFail
                 /\ R = g_RFID_Power => l_flgRFID_On' = on
    ]_vars

\* C31 witness: the timer callback of the cycling output that feeds the
\* reader has requested OFF and armed the OFF phase while the power-off of
\* the reader is deferred (transponder present, output still on)
C31_Witness ==
    /\ op.name = "Tick"
    /\ g_RFID_Power = PWR_OUT_UA2
    /\ g_PwrInterval[PWR_OUT_UA2] >= MIN_VAL_INTERVAL
    /\ PwrOut[PWR_OUT_UA2]
    /\ ~l_flgRFID_On
    /\ l_flgRFID_IsOn
    /\ g_Transponder # EOS
    /\ sTimer[l_hdlPwrInterval(PWR_OUT_UA2)] = CycInterval - CycDuration

\* C32: whenever no PowerOutput() call of the service loop is under way, an
\* output UA1 or UA2 that is on has its measurement unit active: the enable
\* pin is set, both channels are part of the ADC scan and the follow-up timer
\* is not armed
C32_RailMeasured ==
    pc # "meas"
    => \A output \in Rails :
           LET m == Measure(output)
           IN  (m # MEASURE_NONE /\ PwrOut[output])
               => /\ MeasPin[m]
                  /\ ChanU(m) \in l_ADC_ActiveChanMask
                  /\ ChanI(m) \in l_ADC_ActiveChanMask
                  /\ sTimer[hdlFollowUpTime(m)] = 0

C34_DivisorsNonZero ==
    (\A i \in Units : cal.g_UA_Calib_mV[i] # 0 /\ cal.g_UA_Calib_mA[i] # 0)
    => \A i \in Units :
          /\ cal.l_mV_Divider[i] # <<0, 0>>
          /\ cal.l_mA_Divider[i] # <<0, 0>>

\* C35: when RFID_Check() consumes the new-ID flag, the string it passes to
\* ControlUpdateID() is not empty, and for a Long Range reader it is the ID
\* of the validated frame decoded last
C35_ReportedID ==
    [][( /\ op'.name = "RFID_Check"
         /\ l_flgNewID
         /\ ~l_flgNewID' )
       => \E i \in 1 .. Len(log') :
             /\ log'[i].tag = "Transponder"
             /\ log'[i].arg # EOS
             /\ (l_pRFID_Cfg.RFID_Type = RFID_TYPE_LR /\ hist.last # <<>>)
                   => log'[i].arg = FrameID(hist.last)
    ]_vars

\* C36: a validated frame that raises the new-ID flag (new run, or ID
\* different from the stored one) finds no earlier notification pending, so
\* every detection is reported by a ControlUpdateID() call of its own
C36_NoLostDetection ==
    [][( /\ op'.name = "RxByte"
         /\ \/ op'.en /\ l_flgNewRun
            \/ g_Transponder' # g_Transponder )
       => ~l_flgNewID
    ]_vars

\* C37: between two calls of the service loop, l_flgRFID_IsOn is set only
\* while the reader's power output is on, so that a reader which is enabled
\* and configured is powered on again by RFID_Check() after the configuration
\* has been read again
C37_ReaderSurvives ==
    (pc = "loop" /\ l_flgRFID_IsOn /\ l_flgRFID_Activate /\ ~l_flgPowerFail)
    => PwrOut[l_pRFID_Cfg.RFID_PwrOut]

\* C38: whenever the reader is disabled but still powered because a
\* transponder is considered present (l_flgRFID_On cleared, l_flgRFID_IsOn
\* set and the output on, absence detection configured, an ID stored), the
\* absence timer is running, also after the configuration has been read again
C38_DeferredEnds ==
    ( /\ ~l_flgRFID_On
      /\ l_flgRFID_IsOn
      /\ l_flgRFID_Activate
      /\ PwrOut[l_pRFID_Cfg.RFID_PwrOut]
      /\ g_RFID_AbsentDetectTimeout > 0
      /\ g_Transponder # EOS )
    => sTimer[HDL_ABSENT] > 0

\* C40: the decoder position l_State is within 0..13 while the Short Range
\* format is selected and within 0..10 while the Long Range format is
\* selected, also after RFID_Init() with another RFID_TYPE and after
\* RFID_PowerOn() and RFID_PowerOff()
C40_PositionBounds ==
    /\ l_pRFID_Cfg.RFID_Type = RFID_TYPE_SR => l_State \in 0..13
    /\ l_pRFID_Cfg.RFID_Type = RFID_TYPE_LR => l_State \in 0..10
\* the Long Range decoder has reached its last position in a stream whose
\* first frame has the Short Range format: RFID_TYPE has changed
C40_Witness ==
    /\ op.name = "RxByte"
    /\ l_pRFID_Cfg.RFID_Type = RFID_TYPE_LR
    /\ l_State = 10
    /\ rx = Frame(RFID_TYPE_SR, Bird) \o Frame(RFID_TYPE_LR, Bird)
    /\ rxPos = 24
    /\ g_Transponder # EOS

\* C39: what a Power Times menu has written to the display agrees with
\* AlarmPowerControl(): in an overview the two counts are the numbers of
\* enabled ON and OFF alarms of the output shown, at most 5 each; in a
\* detailed view an ON or OFF time shown is an ON or OFF alarm of that output
C39_DisplayRanges ==
    LET Mine(st) == { a \in PowerAlarms : /\ AlarmOutput(a) = l_PwrOut
                                          /\ AlarmState(a) = st }
    IN  (op.name = "MenuKey" /\ op.en)
        => IF l_flgOverview
           THEN /\ lcd.l1.val = Cardinality(Mine(PWR_ON) \cap alarmEnabled)
                /\ lcd.l2.val = Cardinality(Mine(PWR_OFF) \cap alarmEnabled)
                /\ lcd.l1.val \in 0 .. 5
                /\ lcd.l2.val \in 0 .. 5
           ELSE l_MenuIdx > 0
                => /\ lcd.l1.val # NONE => lcd.l1.val \in Mine(PWR_ON)
                   /\ lcd.l2.val # NONE => lcd.l2.val \in Mine(PWR_OFF)
                   /\ lcd.l1.val # NONE \/ lcd.l2.val # NONE

=============================================================================
